---- MODULE Spec2Model ----
(***************************************************************************)
(* Model of the artifacts-server bot fleet: GameBot (src/src/gameBot.ts),  *)
(* its APIClient batch helper (src/src/apiClient.ts), GameBotManager       *)
(* (src/src/botManager.ts) and the socket command handlers                 *)
(* (src/src/index.ts).                                                     *)
(*                                                                         *)
(* JavaScript runs one continuation at a time: the code between two        *)
(* awaits is atomic.  An action of this model is one such continuation: a  *)
(* manager method called by a socket handler, or the part of a control     *)
(* loop that runs when the promise it awaits settles, up to the next await *)
(* on a remote call or a timer.  A loop's pc names the await it is         *)
(* suspended at.  Awaits that never leave the microtask queue (an async    *)
(* function that returns without awaiting) do not yield to commands or     *)
(* timers and are not separate steps.                                      *)
(*                                                                         *)
(* The remote game API is outside the repository: what a call returns is   *)
(* drawn from small sets (a character view, a payload, a cooldown, or a    *)
(* failure).                                                               *)
(***************************************************************************)
EXTENDS Integers, Sequences, FiniteSets, TLC

(***************************************************************************)
(* Bounds of the model (not program constants).                            *)
(***************************************************************************)
\* How many entries of the default roster the manager of Spec is built with.
RosterSize == 2
\* GameBot instances that can be constructed in one run.
MaxBots == 3
\* Control loops (pending start() invocations) that can exist at once: in a
\* run of the server, and in a run of one agent.
MaxLoops == 2
AgentLoops == 1
\* Remote game actions the bots may issue in one run, all together: in a run
\* of one agent, and in a run of the server.
MaxIssued == 4
ServerIssued == 3
ConfigIssued == 2
\* How many entries of the default roster the manager of SpecConfig has.
ConfigRoster == 1
\* Capacity of the manager's log; stands for MAX_LOGS (1000 in
\* botManager.ts line 18), scaled so that eviction happens within the run.
MAX_LOGS == 2

(***************************************************************************)
(* Program constants.  Times are in milliseconds.                          *)
(***************************************************************************)
INVENTORY_FULL == 100
FIGHT_REST_PERCENT == 50
GATHER_REST_PERCENT == 30
COOLDOWN_MARGIN == 500
BATCH_DELAY == 3500
RETRY_DELAY == 5000

\* The manager's token (process.env.API_TOKEN).
ApiToken == "token"

(***************************************************************************)
(* Option values: null/undefined is <<>>, a present value v is <<v>>.      *)
(***************************************************************************)
None == <<>>
Some(v) == <<v>>
IsSome(o) == o # <<>>
The(o) == o[1]

\* { ...a, ...b }: the keys of both, b's value where both have one.
Merge(a, b) ==
    [k \in (DOMAIN a) \cup (DOMAIN b) |-> IF k \in DOMAIN b THEN b[k] ELSE a[k]]

\* obj.field is present and truthy (a string field: not "", a number: not 0).
Has(obj, field) == field \in DOMAIN obj

\* map.get(key) || 0
MapGet(map, key) == IF key \in DOMAIN map THEN map[key] ELSE 0

EmptyMap == [k \in {} |-> 0]

Max(a, b) == IF a >= b THEN a ELSE b

Pos(px, py) == [x |-> px, y |-> py]

(***************************************************************************)
(* GameBot.RESOURCE_POSITIONS and GameBot.CRAFTING_LOCATIONS.              *)
(***************************************************************************)
RESOURCE_POSITIONS ==
    [copper |-> Pos(2, 0), ash_tree |-> Pos(-1, 0), sunflower |-> Pos(2, 2),
     gudgeon |-> Pos(4, 2), iron |-> Pos(1, 7), spruce_tree |-> Pos(2, 6),
     shrimp |-> Pos(5, 2), birch_tree |-> Pos(3, 5), coal |-> Pos(1, 6)]

CRAFTING_LOCATIONS ==
    [bank |-> Pos(4, 1), woodcutting |-> Pos(-2, -3), mining |-> Pos(1, 5),
     jewelry |-> Pos(1, 3), gearcrafting |-> Pos(3, 1),
     weaponcrafting |-> Pos(2, 1), cooking |-> Pos(1, 1), alchemy |-> Pos(2, 3)]

\* MonsterService.getMonsterPosition(code, skin): the registry is loaded once
\* from the game's map data; the model's registry knows one monster.
MonsterRegistry == [chicken |-> <<[skin |-> "chicken1", position |-> Pos(0, 1)]>>]

getMonsterPosition(code, skin) ==
    IF code \notin DOMAIN MonsterRegistry \/ MonsterRegistry[code] = <<>>
    THEN None
    ELSE IF IsSome(skin)
         THEN LET hits == SelectSeq(MonsterRegistry[code],
                                    LAMBDA m : m.skin = The(skin))
              IN  IF hits = <<>> THEN None ELSE Some(hits[1])
         ELSE Some(MonsterRegistry[code][1])

(***************************************************************************)
(* GameBotManager.initializeBots: the default roster.                      *)
(***************************************************************************)
DefaultConfigs ==
    << [characterName |-> "Psy", actionType |-> "fight", apiToken |-> ApiToken],
       [characterName |-> "Atlas", actionType |-> "gather", resource |-> "iron",
        apiToken |-> ApiToken],
       [characterName |-> "Shiva", actionType |-> "gather", resource |-> "copper",
        apiToken |-> ApiToken],
       [characterName |-> "Yoga", actionType |-> "gather", resource |-> "ash_tree",
        apiToken |-> ApiToken],
       [characterName |-> "Shakti", actionType |-> "gather",
        resource |-> "spruce_tree", apiToken |-> ApiToken] >>

(***************************************************************************)
(* Inputs: crafting cycles a client may configure.                         *)
(***************************************************************************)
\* withdraw, craft, deposit: a cycle whose every step can succeed.
CycleSmelt ==
    [id |-> "smelt", name |-> "Smelt copper",
     steps |-> << [type |-> "withdraw", item |-> "copper_ore", quantity |-> 8],
                  [type |-> "craft", item |-> "copper", quantity |-> 1],
                  [type |-> "deposit", item |-> "copper", quantity |-> 1] >>]

\* Two withdrawals of different items.
CycleStock ==
    [id |-> "stock", name |-> "Take ore and coal",
     steps |-> << [type |-> "withdraw", item |-> "copper_ore", quantity |-> 8],
                  [type |-> "withdraw", item |-> "coal", quantity |-> 2] >>]

\* A move to a named station, then a craft step that names no item.
CycleNoItem ==
    [id |-> "noitem", name |-> "Craft without item",
     steps |-> << [type |-> "move", location |-> "mining"],
                  [type |-> "craft", quantity |-> 1] >>]

\* A move to an explicit position, then a step of a kind the bot does not know.
CycleUnknown ==
    [id |-> "unknown", name |-> "Unknown step",
     steps |-> << [type |-> "move", position |-> Pos(4, 1)],
                  [type |-> "smelt", item |-> "copper", quantity |-> 1] >>]

(***************************************************************************)
(* Inputs: what the remote API returns.                                    *)
(***************************************************************************)
\* The entry of the character list for the bot's character (types/index.ts
\* Character), without its name.  A slot with no item has code "".
CharacterViews ==
    { [hp |-> 100, max_hp |-> 100, x |-> 0, y |-> 0, inventory |-> <<>>],
      [hp |-> 100, max_hp |-> 100, x |-> 4, y |-> 1,
       inventory |-> << [code |-> "iron_ore", quantity |-> 60],
                        [code |-> "feather", quantity |-> 40] >>],
      [hp |-> 40, max_hp |-> 100, x |-> 0, y |-> 0,
       inventory |-> << [code |-> "iron_ore", quantity |-> 99],
                        [code |-> "", quantity |-> 0],
                        [code |-> "feather", quantity |-> 1] >>],
      [hp |-> 20, max_hp |-> 100, x |-> 4, y |-> 1,
       inventory |-> << [code |-> "iron_ore", quantity |-> 99] >>] }

\* getCharacters(): it fails, or the list has no entry for the name, or one.
FetchOutcomes ==
    {[ok |-> FALSE, character |-> None]}
    \cup {[ok |-> TRUE, character |-> None]}
    \cup {[ok |-> TRUE, character |-> Some(v)] : v \in CharacterViews}

\* cooldown.expiration of a response, as milliseconds from the moment the
\* response arrives; None when the response carries no cooldown.
CooldownChoices == {None, Some(0), Some(5000)}

\* data.fight of a fight response.
FightPayloads ==
    { None,
      Some([xp |-> 5, gold |-> 2,
            drops |-> Some(<< [code |-> "feather", quantity |-> 1] >>)]),
      Some([xp |-> 0, gold |-> 0, drops |-> None]) }

\* data.details of a gathering response.
GatherPayloads ==
    { None,
      Some([xp |-> 5, items |-> Some(<< [code |-> "iron_ore", quantity |-> 1] >>)]),
      Some([xp |-> 0, items |-> None]) }

\* A response to a game action: a failure (APIClient.request throws), or data.
ActionOutcomes ==
    {[ok |-> FALSE, cooldown |-> None]}
    \cup {[ok |-> TRUE, cooldown |-> c] : c \in CooldownChoices}

(***************************************************************************)
(* State.                                                                  *)
(***************************************************************************)
VARIABLES
    bots,        \* GameBotManager.bots: the Map's entries in insertion order,
                 \* each <<character name, bot id>>
    botsConfig,  \* GameBotManager.botsConfig: name -> config
    botsStatus,  \* GameBotManager.botsStatus: name -> the bot whose current
                 \* status object the Map holds
    logs,        \* GameBotManager.logs, most recent first
    inserted,    \* the entries handed to addLog since the manager was built
                 \* or clearLogs was last called, most recent first, of which
                 \* only the MAX_LOGS most recent are remembered
    bot,         \* the GameBot instances constructed so far, by id
    loop,        \* the pending invocations of GameBot.start (control loops)
    remote       \* what the remote API and the clock do in this run (fixed
                 \* by Init): the responses it may give, how many requests
                 \* and loops the run is followed for, and timed, which is
                 \* TRUE when the run measures time (timers fire no earlier
                 \* than set); FALSE when a timer fires at some later moment

vars == <<bots, botsConfig, botsStatus, logs, inserted, bot, loop, remote>>

BotIds == 1..MaxBots
LoopIds == 1..MaxLoops

\* The field initialisers of GameBot (gameBot.ts lines 17-36).
InitialCraftingStats ==
    [itemsCrafted |-> EmptyMap, totalCrafts |-> 0, failedCrafts |-> 0,
     currentCycle |-> None, cycleProgress |-> 0, materialsUsed |-> EmptyMap]

InitialStatus ==
    [isRunning |-> FALSE, lastAction |-> "", totalActions |-> 0, totalXp |-> 0,
     totalGold |-> 0, itemsCollected |-> EmptyMap, currentHp |-> 0, maxHp |-> 0,
     craftingStats |-> InitialCraftingStats]

\* A GameBot after its constructor.  status is the value of the object
\* this.status refers to; published is the value that object had when it was
\* first handed out (emitted or returned by getStatus); issued counts the
\* game actions sent; due is the time left until the most recently returned
\* cooldown expiration plus the margin; early records an action sent before;
\* expected is the item map the last processed result should have produced
\* (the map before it with the returned quantities added); processed counts
\* the fight/gather responses that carried a result, and sums their xp and
\* the gold of the fights; succeeded sums, per item, the quantities of the
\* withdraw steps (used) and deposit steps (made) whose call succeeded, and
\* counts the craft calls that succeeded (crafts).
NewBot(config) ==
    [alive |-> TRUE, config |-> config, isRunning |-> FALSE,
     currentCooldown |-> None, status |-> InitialStatus,
     published |-> InitialStatus, issued |-> 0, due |-> 0, early |-> FALSE,
     expected |-> EmptyMap, processed |-> [n |-> 0, xp |-> 0, gold |-> 0],
     succeeded |-> [used |-> EmptyMap, made |-> EmptyMap, crafts |-> 0]]

\* An id no GameBot has been constructed for yet.
Unborn ==
    [alive |-> FALSE, config |-> [characterName |-> ""], isRunning |-> FALSE,
     currentCooldown |-> None, status |-> InitialStatus,
     published |-> InitialStatus, issued |-> 0, due |-> 0, early |-> FALSE,
     expected |-> EmptyMap, processed |-> [n |-> 0, xp |-> 0, gold |-> 0],
     succeeded |-> [used |-> EmptyMap, made |-> EmptyMap, crafts |-> 0]]

\* A loop slot no start() invocation occupies.  bot, pc, k and wake say where
\* an invocation is suspended; character, currentStep, items and inCycle are
\* its locals.  The rest records its history: stopped (stop() was called on
\* its bot since it began), revived (it began an iteration after that), full
\* (the character fetched in this iteration had a full inventory), trace (the
\* game actions sent in this iteration or crafting pass), lastStep and lastOk
\* (the crafting step attempted last, and whether it succeeded), outOfOrder
\* (an attempt was not the one the cycle order calls for), snapAt (how many
\* of the actions in trace had been sent when character was fetched),
\* staleUse (since the iteration or crafting pass began, character was read
\* for a decision after a later action had been awaited), absent (the list
\* its last getCharacters() returned had no entry for the character).
FreeLoop ==
    [bot |-> 0, pc |-> "free", k |-> "", character |-> None, currentStep |-> 0,
     items |-> <<>>, wake |-> 0, inCycle |-> FALSE,
     stopped |-> FALSE, revived |-> FALSE, full |-> FALSE, trace |-> <<>>,
     lastStep |-> None, lastOk |-> FALSE, outOfOrder |-> FALSE,
     snapAt |-> 0, staleUse |-> FALSE, absent |-> FALSE]

\* The whole state as one record, so that the methods below are functions
\* from state to state; s.overflow is set when a bound of the model is hit;
\* s.emitted lists, in order, the events the manager has emitted since the
\* handler or continuation that is running began, and s.said the log events
\* the bots have emitted since then.
Cur ==
    [bots |-> bots, botsConfig |-> botsConfig, botsStatus |-> botsStatus,
     logs |-> logs, inserted |-> inserted, bot |-> bot, loop |-> loop,
     overflow |-> FALSE, emitted |-> <<>>, said |-> <<>>]

Commit(s) ==
    /\ ~s.overflow
    /\ bots' = s.bots
    /\ botsConfig' = s.botsConfig
    /\ botsStatus' = s.botsStatus
    /\ logs' = s.logs
    /\ inserted' = s.inserted
    /\ bot' = s.bot
    /\ loop' = s.loop
    /\ remote' = remote

(***************************************************************************)
(* GameBotManager: the listeners createBot attaches to a bot, and addLog.  *)
(* The listeners close over the config the bot was created with, and stay  *)
(* attached when the bot is replaced.                                      *)
(***************************************************************************)
\* The first n elements of a sequence (all of it when it is shorter).
Take(seq, n) == SubSeq(seq, 1, IF Len(seq) < n THEN Len(seq) ELSE n)

\* An addLog that pushes the entry at the end and drops from the front.
addLogPush(s, entry) ==
    LET pushed == s.logs \o <<entry>>
    IN  [s EXCEPT !.logs = IF Len(pushed) > MAX_LOGS
                           THEN SubSeq(pushed, 2, MAX_LOGS + 1)
                           ELSE pushed,
                  !.inserted = Take(<<entry>> \o @, MAX_LOGS)]

\* addLog(log): unshift, then slice(0, MAX_LOGS) when longer.
addLog(s, entry) ==
    LET unshifted == <<entry>> \o s.logs
    IN  [s EXCEPT !.logs = IF Len(unshifted) > MAX_LOGS
                           THEN SubSeq(unshifted, 1, MAX_LOGS)
                           ELSE unshifted,
                  !.inserted = Take(<<entry>> \o @, MAX_LOGS)]

\* clearLogs()
clearLogs(s) == [s EXCEPT !.logs = <<>>, !.inserted = <<>>]

\* this.emit(type, payload).  A log event is recorded with the bot it came
\* from and with the manager's log as the listener found it (before) and as
\* it is at the moment of the emission (after).
Emit(s, event) == [s EXCEPT !.emitted = Append(@, event)]

\* A listener that emits first and calls addLog after.
OnLogEmitFirst(s, b, message) ==
    LET logEntry == [characterName |-> s.bot[b].config.characterName,
                     message |-> message]
    IN  addLog(Emit(s, [type |-> "log",
                        characterName |-> logEntry.characterName,
                        message |-> message, from |-> b,
                        before |-> s.logs, after |-> s.logs]),
               logEntry)

\* bot.on('log', ...): addLog, then emit.
OnLog(s, b, message) ==
    LET logEntry == [characterName |-> s.bot[b].config.characterName,
                     message |-> message]
        s1 == addLog(s, logEntry)
    IN  Emit(s1, [type |-> "log", characterName |-> logEntry.characterName,
                  message |-> message, from |-> b,
                  before |-> s.logs, after |-> s1.logs])

\* bot.on('statusUpdate', ...): the Map now holds bot b's current object.
OnStatusUpdate(s, b) ==
    Emit([s EXCEPT !.botsStatus = (s.bot[b].config.characterName :> b) @@ @],
         [type |-> "statusUpdate",
          characterName |-> s.bot[b].config.characterName,
          status |-> s.bot[b].status, from |-> b])

(***************************************************************************)
(* GameBot: log, updateStatus, updateCraftingStats.                        *)
(***************************************************************************)
\* this.emit("log", message): the listener runs at once.
log(s, b, message) ==
    OnLog([s EXCEPT !.said = Append(@, [from |-> b, message |-> message])],
          b, message)

\* An updateStatus that spreads the updates over the initial status.
updateStatusFromInitial(s, b, updates) ==
    LET fresh == Merge(InitialStatus, updates)
    IN  OnStatusUpdate([s EXCEPT !.bot[b].status = fresh,
                                 !.bot[b].published = fresh], b)

\* this.status = { ...this.status, ...updates }: a new object, then emitted.
updateStatus(s, b, updates) ==
    LET fresh == Merge(s.bot[b].status, updates)
    IN  OnStatusUpdate([s EXCEPT !.bot[b].status = fresh,
                                 !.bot[b].published = fresh], b)

\* An updateCraftingStats whose two maps are those of the update alone.
updateCraftingStatsSpread(s, b, updates) ==
    LET currentStats == s.bot[b].status.craftingStats
        stats == Merge(currentStats, updates)
    IN  OnStatusUpdate([s EXCEPT !.bot[b].status.craftingStats = stats], b)

\* this.status.craftingStats = {...}: the field of the existing status object
\* is assigned, and the same object is emitted again.  craftingStats is never
\* absent (the initial status has it and no update removes it).
updateCraftingStats(s, b, updates) ==
    LET currentStats == s.bot[b].status.craftingStats
        merged == Merge(currentStats, updates)
        stats == [merged EXCEPT
                    !.itemsCrafted =
                        Merge(currentStats.itemsCrafted,
                              IF Has(updates, "itemsCrafted")
                              THEN updates.itemsCrafted ELSE EmptyMap),
                    !.materialsUsed =
                        Merge(currentStats.materialsUsed,
                              IF Has(updates, "materialsUsed")
                              THEN updates.materialsUsed ELSE EmptyMap)]
    IN  OnStatusUpdate([s EXCEPT !.bot[b].status.craftingStats = stats], b)

(***************************************************************************)
(* Suspension: a timer, and a request to the game API.                     *)
(***************************************************************************)
\* await new Promise(resolve => setTimeout(resolve, ms)), suspended at pc.
Sleep(s, l, pc, k, ms) ==
    [s EXCEPT !.loop[l].pc = pc, !.loop[l].k = k,
              !.loop[l].wake = IF remote.timed THEN ms ELSE 0]

\* The game actions sent so far by the bots 1..n.
RECURSIVE TotalIssued(_, _)
TotalIssued(s, n) ==
    IF n = 0 THEN 0 ELSE s.bot[n].issued + TotalIssued(s, n - 1)

\* A request of a game action leaves; the loop is suspended at pc until the
\* response.  act describes the request.
Issue(s, l, pc, k, act) ==
    LET b == s.loop[l].bot
    IN  [s EXCEPT !.loop[l].pc = pc, !.loop[l].k = k,
                  !.loop[l].trace = Append(@, act),
                  !.bot[b].issued = @ + 1,
                  !.bot[b].early = @ \/ s.bot[b].due > 0,
                  !.overflow = @ \/ TotalIssued(s, MaxBots) >= remote.fuel]

Act(op) == [op |-> op, pos |-> None, item |-> None]
MoveAct(p) == [op |-> "move", pos |-> Some(p), item |-> None]
ItemAct(op, item) == [op |-> op, pos |-> None, item |-> Some(item)]

\* A response carried cooldown.expiration cd: the expiration plus the margin
\* is due that much later (measured only in a timed run).
NoteCooldown(s, b, cd) ==
    IF IsSome(cd) /\ remote.timed
    THEN [s EXCEPT !.bot[b].due = The(cd) + COOLDOWN_MARGIN]
    ELSE s

\* if (result.data?.cooldown?.expiration) this.currentCooldown = ...
\* A cooldown kept in one place for all bots (a variant the independence
\* property tells apart from the code's per-bot field).
SetCooldownShared(s, b, cd) ==
    IF IsSome(cd)
    THEN NoteCooldown([s EXCEPT !.bot = [o \in BotIds |->
                                           IF s.bot[o].alive
                                           THEN [s.bot[o] EXCEPT
                                                    !.currentCooldown = cd]
                                           ELSE s.bot[o]]], b, cd)
    ELSE s

SetCooldown(s, b, cd) ==
    IF IsSome(cd)
    THEN NoteCooldown([s EXCEPT !.bot[b].currentCooldown = cd], b, cd)
    ELSE s

\* character.inventory.reduce((total, slot) => total + slot.quantity, 0)
RECURSIVE InventoryTotal(_)
InventoryTotal(inventory) ==
    IF inventory = <<>> THEN 0
    ELSE inventory[1].quantity + InventoryTotal(Tail(inventory))

InventoryIsFull(character) ==
    InventoryTotal(character.inventory) >= INVENTORY_FULL

\* depositItems: the slots with a code and a positive quantity, as items.
DepositList(character) ==
    SelectSeq(character.inventory,
              LAMBDA slot : slot.code # "" /\ slot.quantity > 0)

\* needsRest with the two thresholds exchanged.
NeedsRestSwapped(config, character) ==
    \/ /\ config.actionType = "fight"
       /\ character.hp * 100 < GATHER_REST_PERCENT * character.max_hp
    \/ /\ config.actionType = "gather"
       /\ character.hp * 100 < FIGHT_REST_PERCENT * character.max_hp

\* GameBot.rest: needsRest.  hpPercent = hp / max_hp * 100 (max_hp > 0).
NeedsRest(config, character) ==
    \/ /\ config.actionType = "fight"
       /\ character.hp * 100 < FIGHT_REST_PERCENT * character.max_hp
    \/ /\ config.actionType = "gather"
       /\ character.hp * 100 < GATHER_REST_PERCENT * character.max_hp

\* Math.floor((currentStep / totalSteps) * 100), for the cycle lengths of the
\* model (no rounding error of the floating-point quotient below 1/100).
CycleProgress(currentStep, totalSteps) == (currentStep * 100) \div totalSteps

(***************************************************************************)
(* GameBot.start: the control loop, one operator per stretch of code.      *)
(* Each takes the state and a loop and returns the state at the loop's     *)
(* next suspension.  Resume(s, l, k) continues after a move or a cooldown  *)
(* wait at the place k names.                                              *)
(***************************************************************************)
RECURSIVE Resume(_, _, _)

\* while (this.isRunning) { try { const characters = await getCharacters()
\* The loop either begins an iteration (suspended at the fetch) or returns.
LoopHead(s, l) ==
    LET b == s.loop[l].bot
        old == s.loop[l]
    IN  IF s.bot[b].isRunning
        THEN [s EXCEPT !.loop[l] =
                 [FreeLoop EXCEPT !.bot = b, !.pc = "fetch",
                                  !.stopped = old.stopped,
                                  !.revived = old.revived \/ old.stopped,
                                  !.lastStep = old.lastStep,
                                  !.lastOk = old.lastOk,
                                  !.outOfOrder = old.outOfOrder]]
        ELSE [s EXCEPT !.loop[l] = FreeLoop]

\* A catch that ends the loop instead of waiting (a variant the loop
\* property tells apart from the code's catch).
LoopCatchExit(s, l) == [s EXCEPT !.loop[l] = FreeLoop]

\* catch (error) { this.log(`Error: ...`); await 5000 ms } of start().
\* The locals of the iteration (and of executeCraftingCycle) are gone.
LoopCatch(s, l) ==
    LET old == s.loop[l]
        s1 == [s EXCEPT !.loop[l] =
                  [FreeLoop EXCEPT !.bot = old.bot, !.pc = old.pc,
                                   !.stopped = old.stopped,
                                   !.revived = old.revived,
                                   !.lastStep = old.lastStep,
                                   !.lastOk = old.lastOk,
                                   !.outOfOrder = old.outOfOrder]]
    IN  Sleep(log(s1, old.bot, "Error"), l, "error_wait", "", RETRY_DELAY)

\* executeCraftingCycle: while (currentStep < totalSteps && this.isRunning)
\* { const character = await getCharacters() ... }, and what follows the
\* while: the progress reset, the return to start() and its loop head.
CycleHead(s, l) ==
    LET b == s.loop[l].bot
        old == s.loop[l]
        totalSteps == Len(s.bot[b].config.craftingCycle.steps)
    IN  IF old.currentStep < totalSteps /\ s.bot[b].isRunning
        THEN [s EXCEPT !.loop[l].pc = "c_fetch", !.loop[l].k = "",
                       !.loop[l].character = None,
                       !.loop[l].full = FALSE, !.loop[l].trace = <<>>,
                       !.loop[l].snapAt = 0, !.loop[l].staleUse = FALSE,
                       !.loop[l].revived = old.revived \/ old.stopped]
        ELSE LoopHead(IF old.currentStep >= totalSteps
                      THEN updateCraftingStats(s, b, [cycleProgress |-> 0])
                      ELSE s, l)

\* executeCraftingCycle: success of executeCraftingStep.
StepSucceeded(s, l) ==
    LET b == s.loop[l].bot
        totalSteps == Len(s.bot[b].config.craftingCycle.steps)
        next == s.loop[l].currentStep + 1
        s1 == [s EXCEPT !.loop[l].currentStep = next, !.loop[l].lastOk = TRUE]
    IN  CycleHead(updateCraftingStats(s1, b,
                      [cycleProgress |-> CycleProgress(next, totalSteps)]), l)

\* executeCraftingCycle: executeCraftingStep returned false; wait, retry.
StepFailed(s, l) ==
    Sleep([s EXCEPT !.loop[l].lastOk = FALSE], l, "retry_wait", "", RETRY_DELAY)

\* executeCraftingStep: catch (error) { log; failedCrafts + 1; return false }
StepCatch(s, l) ==
    LET b == s.loop[l].bot
        s1 == log(s, b, "Crafting step failed")
    IN  StepFailed(updateCraftingStats(s1, b,
            [failedCrafts |-> s1.bot[b].status.craftingStats.failedCrafts + 1]),
            l)

\* The places a move is called from inside executeCraftingStep's try.
StepContinuations == {"withdraw", "deposit", "step_cool"}

\* A remote call of the loop failed: the innermost catch around it.
Throw(s, l) ==
    IF \/ s.loop[l].pc \in {"withdraw", "deposit", "craft"}
       \/ s.loop[l].pc = "move" /\ s.loop[l].k \in StepContinuations
    THEN StepCatch(s, l)
    ELSE LoopCatch(s, l)

\* handleCooldown, then the code at k.
handleCooldown(s, l, k) ==
    LET b == s.loop[l].bot
        cd == s.bot[b].currentCooldown
    IN  IF ~IsSome(cd)
        THEN Resume(s, l, k)
        ELSE IF The(cd) > 0
             THEN Sleep(log(s, b, "Waiting for cooldown"), l, "cooldown", k,
                        The(cd) + COOLDOWN_MARGIN)
             ELSE Resume([s EXCEPT !.bot[b].currentCooldown = None], l, k)

\* The loop reads its character for a decision: staleUse records whether an
\* action has been awaited since that character was fetched.
ReadCharacter(s, l) ==
    [s EXCEPT !.loop[l].staleUse =
                  @ \/ Len(s.loop[l].trace) > s.loop[l].snapAt]

\* A move that takes the character to be at the target already.
moveAssumedThere(s, l, targetPos, k) == Resume(ReadCharacter(s, l), l, k)

\* move(targetPos, character), then the code at k.
move(s, l, targetPos, k) ==
    LET character == The(s.loop[l].character)
        s1 == ReadCharacter(s, l)
    IN  IF character.x = targetPos.x /\ character.y = targetPos.y
        THEN Resume(s1, l, k)
        ELSE Issue(s1, l, "move", k, MoveAct(targetPos))

\* A moveToBank that stays where the character is (a variant the banking
\* property tells apart from the code's).
SkipMoveToBank(s, l, k) == Resume(s, l, k)

\* moveToBank(character), then the code at k.
moveToBank(s, l, k) == move(s, l, CRAFTING_LOCATIONS.bank, k)

\* A continuation of the deposit batch that begins the cycle anew.
AfterDepositAllRestart(s, l) ==
    IF s.loop[l].inCycle
    THEN CycleHead([s EXCEPT !.loop[l].currentStep = 0], l)
    ELSE LoopHead(s, l)

\* The rest of the iteration after the deposit batch: `continue`.
AfterDepositAll(s, l) ==
    IF s.loop[l].inCycle THEN CycleHead(s, l) ELSE LoopHead(s, l)

\* APIClient.depositAll: for (const item of items) { await deposit ...
DepositNext(s, l) ==
    IF s.loop[l].items = <<>>
    THEN AfterDepositAll(s, l)
    ELSE Issue(s, l, "dep", "", ItemAct("deposit", s.loop[l].items[1]))

\* depositItems(character)
depositItems(s, l) ==
    DepositNext([ReadCharacter(s, l) EXCEPT
                     !.loop[l].items = DepositList(The(s.loop[l].character))],
                l)

\* performMainAction: await this.api.fight(...) or this.api.gather(...)
IssueMainAction(s, l) ==
    LET b == s.loop[l].bot
    IN  Issue(s, l, "act", "",
              Act(IF s.bot[b].config.actionType = "fight"
                  THEN "fight" ELSE "gather"))

\* performMainAction, up to its first await.
performMainAction(s, l) ==
    LET config == s.bot[s.loop[l].bot].config
    IN  IF config.actionType = "fight" /\ Has(config, "fightLocation")
        THEN [s EXCEPT !.loop[l].pc = "pm_fetch", !.loop[l].k = ""]
        ELSE IssueMainAction(s, l)

\* moveToResource(character), then performMainAction.
moveToResource(s, l) ==
    LET config == s.bot[s.loop[l].bot].config
    IN  IF ~Has(config, "resource")
        THEN performMainAction(s, l)
        ELSE IF config.resource \notin DOMAIN RESOURCE_POSITIONS
             THEN LoopCatch(s, l)
             ELSE move(s, l, RESOURCE_POSITIONS[config.resource], "main")

\* The step the cycle order calls for after the attempts this invocation of
\* start() has made: the first one; the same one again after a failure; the
\* next one, or the first after the last, after a success.
ExpectedStep(loopRecord, totalSteps) ==
    IF ~IsSome(loopRecord.lastStep) THEN 0
    ELSE IF loopRecord.lastOk
         THEN (The(loopRecord.lastStep) + 1) % totalSteps
         ELSE The(loopRecord.lastStep)

\* executeCraftingStep(steps[currentStep], character), up to its first
\* suspension; a `return false` outside the catch goes to StepFailed.
executeCraftingStep(s, l) ==
    LET b == s.loop[l].bot
        step == s.bot[b].config.craftingCycle.steps[s.loop[l].currentStep + 1]
        s0 == [s EXCEPT
                 !.loop[l].lastStep = Some(s.loop[l].currentStep),
                 !.loop[l].outOfOrder =
                     @ \/ s.loop[l].currentStep #
                              ExpectedStep(s.loop[l],
                                  Len(s.bot[b].config.craftingCycle.steps))]
        unnamed == ~Has(step, "item") \/ ~Has(step, "quantity")
    IN  CASE step.type = "withdraw" ->
                IF unnamed THEN StepFailed(s0, l)
                ELSE moveToBank(s0, l, "withdraw")
          [] step.type = "deposit" ->
                IF unnamed THEN StepFailed(s0, l)
                ELSE moveToBank(s0, l, "deposit")
          [] step.type = "craft" ->
                IF unnamed THEN StepFailed(s0, l)
                ELSE Issue(s0, l, "craft", "",
                           ItemAct("craft", [code |-> step.item,
                                             quantity |-> step.quantity]))
          [] step.type = "move" ->
                IF Has(step, "location")
                THEN IF step.location \notin DOMAIN CRAFTING_LOCATIONS
                     THEN StepFailed(s0, l)
                     ELSE move(s0, l, CRAFTING_LOCATIONS[step.location],
                               "step_cool")
                ELSE IF Has(step, "position")
                     THEN move(s0, l, step.position, "step_cool")
                     ELSE handleCooldown(s0, l, "step_ok")
          [] OTHER ->
                StepFailed(log(s0, b, "Unknown crafting step type"), l)

\* executeCraftingCycle, up to its first suspension.
executeCraftingCycle(s, l) ==
    IF ~Has(s.bot[s.loop[l].bot].config, "craftingCycle")
    THEN LoopCatch(s, l)
    ELSE CycleHead([s EXCEPT !.loop[l].currentStep = 0,
                             !.loop[l].inCycle = TRUE], l)

\* start(): switch (this.config.actionType) { ... } after rest().
AfterRest(s, l) ==
    LET b == s.loop[l].bot
        config == s.bot[b].config
        character == The(s.loop[l].character)
    IN  CASE config.actionType = "craft" -> executeCraftingCycle(s, l)
          [] config.actionType \in {"fight", "gather"} ->
                LET s1 == ReadCharacter(s, l)
                IN  IF InventoryIsFull(character)
                    THEN moveToBank(log(s1, b, "Inventory full"), l,
                                    "deposit_all")
                    ELSE IF /\ config.actionType = "gather"
                            /\ Has(config, "resource")
                         THEN moveToResource(s1, l)
                         ELSE performMainAction(s1, l)
          [] OTHER -> LoopHead(s, l)

\* rest(character), up to its first suspension.
rest(s, l) ==
    LET b == s.loop[l].bot
    IN  IF NeedsRest(s.bot[b].config, The(s.loop[l].character))
        THEN Issue(log(s, b, "HP low, resting"), l, "rest", "", Act("rest"))
        ELSE AfterRest(s, l)

\* The item of the current withdraw/deposit step.
StepItem(s, l) ==
    LET step == s.bot[s.loop[l].bot].config.craftingCycle
                    .steps[s.loop[l].currentStep + 1]
    IN  [code |-> step.item, quantity |-> step.quantity]

Resume(s, l, k) ==
    CASE k = "after_rest" -> AfterRest(s, l)
      [] k = "deposit_all" -> depositItems(s, l)
      [] k = "main" -> performMainAction(s, l)
      [] k = "act" -> IssueMainAction(s, l)
      [] k = "withdraw" ->
            Issue(s, l, "withdraw", "", ItemAct("withdraw", StepItem(s, l)))
      [] k = "deposit" ->
            Issue(s, l, "deposit", "", ItemAct("deposit", StepItem(s, l)))
      [] k = "step_cool" -> handleCooldown(s, l, "step_ok")
      [] k = "step_ok" -> StepSucceeded(s, l)
      [] k = "end" -> LoopHead(s, l)

\* The fold of processFightResults/processGatherResults over the returned
\* items: a copy of the map with each quantity added.
RECURSIVE AddItems(_, _)
AddItems(map, items) ==
    IF items = <<>> THEN map
    ELSE AddItems((items[1].code :> MapGet(map, items[1].code)
                                    + items[1].quantity) @@ map,
                  Tail(items))

\* processFightResults that leaves the gold out of its status update.
processFightResultsNoGold(s, b, fight) ==
    IF ~IsSome(fight) THEN s
    ELSE LET status == s.bot[b].status
         IN  log(updateStatus(s, b,
                    [totalActions |-> status.totalActions + 1,
                     totalXp |-> status.totalXp + The(fight).xp,
                     itemsCollected |-> status.itemsCollected]),
                 b, "Fight completed")

\* processFightResults(data): the fold's result is a local that is dropped;
\* the status gets a copy of its own itemsCollected.
processFightResults(s, b, fight) ==
    IF ~IsSome(fight) THEN s
    ELSE LET status == s.bot[b].status
             itemsCollected ==
                 IF IsSome(The(fight).drops)
                 THEN AddItems(status.itemsCollected, The(The(fight).drops))
                 ELSE status.itemsCollected
         IN  log(updateStatus([s EXCEPT !.bot[b].expected = itemsCollected], b,
                    [totalActions |-> status.totalActions + 1,
                     totalXp |-> status.totalXp + The(fight).xp,
                     totalGold |-> status.totalGold + The(fight).gold,
                     itemsCollected |-> status.itemsCollected]),
                 b, "Fight completed")

processGatherResults(s, b, details) ==
    IF ~IsSome(details) THEN s
    ELSE LET status == s.bot[b].status
             itemsCollected ==
                 IF IsSome(The(details).items)
                 THEN AddItems(status.itemsCollected, The(The(details).items))
                 ELSE status.itemsCollected
         IN  log(updateStatus([s EXCEPT !.bot[b].expected = itemsCollected], b,
                    [totalActions |-> status.totalActions + 1,
                     totalXp |-> status.totalXp + The(details).xp,
                     itemsCollected |-> status.itemsCollected]),
                 b, "Gathered")

(***************************************************************************)
(* GameBot.start and GameBot.stop, as called by the manager.               *)
(***************************************************************************)
\* start() without its first line: it runs whether or not the bot is running.
startAgain(s, b) ==
    LET s1 == log(updateStatus([s EXCEPT !.bot[b].isRunning = TRUE], b,
                               [isRunning |-> TRUE]),
                  b, "Bot started")
        free == {l \in 1..remote.loops : s1.loop[l].pc = "free"}
    IN  IF free = {} THEN [s1 EXCEPT !.overflow = TRUE]
        ELSE LET l == CHOOSE x \in free : \A y \in free : x <= y
             IN  LoopHead([s1 EXCEPT !.loop[l] = [FreeLoop EXCEPT !.bot = b]], l)

\* start(), up to the first await of its loop: a new pending invocation.
start(s, b) ==
    IF s.bot[b].isRunning THEN s
    ELSE LET s1 == log(updateStatus([s EXCEPT !.bot[b].isRunning = TRUE], b,
                                    [isRunning |-> TRUE]),
                       b, "Bot started")
             free == {l \in 1..remote.loops : s1.loop[l].pc = "free"}
         IN  IF free = {} THEN [s1 EXCEPT !.overflow = TRUE]
             ELSE LET l == CHOOSE x \in free : \A y \in free : x <= y
                  IN  LoopHead([s1 EXCEPT !.loop[l] =
                                   [FreeLoop EXCEPT !.bot = b]], l)

\* stop(); every invocation of start() pending on this bot has now seen a
\* stop() (loop.stopped).
stop(s, b) ==
    LET s1 == log(updateStatus([s EXCEPT !.bot[b].isRunning = FALSE], b,
                               [isRunning |-> FALSE]),
                  b, "Bot stopped")
    IN  [s1 EXCEPT !.loop = [l \in LoopIds |->
                                IF s1.loop[l].bot = b
                                THEN [s1.loop[l] EXCEPT !.stopped = TRUE]
                                ELSE s1.loop[l]]]

(***************************************************************************)
(* GameBotManager.                                                         *)
(***************************************************************************)
\* this.bots.get / set / delete on the Map's entries.
BotsGet(entries, name) ==
    LET hits == SelectSeq(entries, LAMBDA e : e[1] = name)
    IN  IF hits = <<>> THEN None ELSE Some(hits[1][2])

BotsSet(entries, name, b) ==
    IF \E i \in DOMAIN entries : entries[i][1] = name
    THEN [i \in DOMAIN entries |->
             IF entries[i][1] = name THEN <<name, b>> ELSE entries[i]]
    ELSE Append(entries, <<name, b>>)

BotsDelete(entries, name) == SelectSeq(entries, LAMBDA e : e[1] # name)

createBot(s, config) ==
    LET unborn == {b \in BotIds : ~s.bot[b].alive}
    IN  IF unborn = {} THEN [s EXCEPT !.overflow = TRUE]
        ELSE LET b == CHOOSE x \in unborn : \A y \in unborn : x <= y
             IN  [s EXCEPT
                    !.bot[b] = NewBot(config),
                    !.bots = BotsSet(@, config.characterName, b),
                    !.botsConfig = (config.characterName :> config) @@ @,
                    !.botsStatus = (config.characterName :> b) @@ @]

RECURSIVE initializeBots(_, _)
initializeBots(s, configs) ==
    IF configs = <<>> THEN s
    ELSE initializeBots(createBot(s, configs[1]), Tail(configs))

\* A startBot that writes its log entry whether or not it found the bot.
startBotAlwaysLogs(s, characterName) ==
    LET found == BotsGet(s.bots, characterName)
    IN  addLog(IF IsSome(found) THEN start(s, The(found)) ELSE s,
               [characterName |-> characterName, message |-> "Bot started"])

startBot(s, characterName) ==
    LET found == BotsGet(s.bots, characterName)
    IN  IF IsSome(found)
        THEN addLog(start(s, The(found)),
                    [characterName |-> characterName, message |-> "Bot started"])
        ELSE s

stopBot(s, characterName) ==
    LET found == BotsGet(s.bots, characterName)
    IN  IF IsSome(found)
        THEN addLog(stop(s, The(found)),
                    [characterName |-> characterName, message |-> "Bot stopped"])
        ELSE s

RECURSIVE StartEach(_, _)
StartEach(s, entries) ==
    IF entries = <<>> THEN s
    ELSE StartEach(addLog(start(s, entries[1][2]),
                          [characterName |-> entries[1][1],
                           message |-> "Bot started (mass start)"]),
                   Tail(entries))

startAllBots(s) == StartEach(s, s.bots)

RECURSIVE StopEach(_, _)
StopEach(s, entries) ==
    IF entries = <<>> THEN s
    ELSE StopEach(addLog(stop(s, entries[1][2]),
                         [characterName |-> entries[1][1],
                          message |-> "Bot stopped (mass stop)"]),
                  Tail(entries))

stopAllBots(s) == StopEach(s, s.bots)

\* updateBotConfig without the apiToken line of the spread.
updateBotConfigAsGiven(s, characterName, newConfig) ==
    IF characterName \notin DOMAIN s.botsConfig THEN s
    ELSE LET currentConfig == s.botsConfig[characterName]
             found == BotsGet(s.bots, characterName)
             wasRunning == IsSome(found) /\ s.bot[The(found)].status.isRunning
             s1 == IF wasRunning THEN stopBot(s, characterName) ELSE s
             updatedConfig == Merge(currentConfig, newConfig)
             s2 == [s1 EXCEPT !.bots = BotsDelete(@, characterName)]
             s3 == createBot(s2, updatedConfig)
             s4 == [s3 EXCEPT !.botsConfig =
                                 (characterName :> updatedConfig) @@ @]
             s5 == IF wasRunning THEN startBot(s4, characterName) ELSE s4
         IN  Emit(s5, [type |-> "configUpdate", characterName |-> characterName,
                       config |-> updatedConfig])

updateBotConfig(s, characterName, newConfig) ==
    IF characterName \notin DOMAIN s.botsConfig THEN s
    ELSE LET currentConfig == s.botsConfig[characterName]
             found == BotsGet(s.bots, characterName)
             wasRunning == IsSome(found) /\ s.bot[The(found)].status.isRunning
             s1 == IF wasRunning THEN stopBot(s, characterName) ELSE s
             updatedConfig == Merge(Merge(currentConfig, newConfig),
                                    [apiToken |-> ApiToken])
             s2 == [s1 EXCEPT !.bots = BotsDelete(@, characterName)]
             s3 == createBot(s2, updatedConfig)
             s4 == [s3 EXCEPT !.botsConfig =
                                 (characterName :> updatedConfig) @@ @]
             s5 == IF wasRunning THEN startBot(s4, characterName) ELSE s4
         IN  Emit(s5, [type |-> "configUpdate", characterName |-> characterName,
                       config |-> updatedConfig])

(***************************************************************************)
(* Actions of a control loop: the continuation that runs when the awaited  *)
(* call or timer of loop l settles.                                        *)
(***************************************************************************)
\* start(): getCharacters() settled (lines 433-476).
FetchReturns(l) ==
    /\ loop[l].pc = "fetch"
    /\ \E outcome \in remote.fetch :
          LET b == loop[l].bot
              kind == bot[b].config.actionType
          IN  IF ~outcome.ok
              THEN Commit(LoopCatch(Cur, l))
              ELSE IF ~IsSome(outcome.character)
                   THEN Commit(Sleep(log([Cur EXCEPT !.loop[l].absent = TRUE],
                                         b, "Character not found"), l,
                                     "notfound_wait", "", RETRY_DELAY))
                   ELSE LET c == The(outcome.character)
                            s1 == [Cur EXCEPT
                                     !.loop[l].character = Some(c),
                                     !.loop[l].full =
                                         /\ kind \in {"fight", "gather"}
                                         /\ InventoryIsFull(c)]
                        IN  Commit(rest(updateStatus(s1, b,
                                       [currentHp |-> c.hp,
                                        maxHp |-> c.max_hp]), l))

\* The 5 s wait after "Character not found" is over: continue.
NotFoundWaitElapsed(l) ==
    /\ loop[l].pc = "notfound_wait"
    /\ loop[l].wake = 0
    /\ Commit(LoopHead(Cur, l))

\* The 5 s wait of start()'s catch is over.
ErrorWaitElapsed(l) ==
    /\ loop[l].pc = "error_wait"
    /\ loop[l].wake = 0
    /\ Commit(LoopHead(Cur, l))

\* rest(): this.api.rest() settled.
RestReturns(l) ==
    /\ loop[l].pc = "rest"
    /\ \E r \in remote.action :
          IF ~r.ok THEN Commit(Throw(Cur, l))
          ELSE IF IsSome(r.cooldown)
               THEN Commit(handleCooldown(
                        SetCooldown(Cur, loop[l].bot, r.cooldown), l,
                        "after_rest"))
               ELSE Commit(AfterRest(Cur, l))

\* handleCooldown: the timer fired; this.currentCooldown = null.
CooldownElapsed(l) ==
    /\ loop[l].pc = "cooldown"
    /\ loop[l].wake = 0
    /\ Commit(Resume([Cur EXCEPT !.bot[loop[l].bot].currentCooldown = None],
                     l, loop[l].k))

\* move(): this.api.move() settled.
MoveReturns(l) ==
    /\ loop[l].pc = "move"
    /\ \E r \in remote.action :
          IF ~r.ok THEN Commit(Throw(Cur, l))
          ELSE IF IsSome(r.cooldown)
               THEN Commit(handleCooldown(
                        SetCooldown(Cur, loop[l].bot, r.cooldown), l,
                        loop[l].k))
               ELSE Commit(Resume(Cur, l, loop[l].k))

\* depositAll: this.deposit() settled; its response is not looked at.
BatchDepositReturns(l) ==
    /\ loop[l].pc = "dep"
    /\ \E r \in remote.action :
          IF ~r.ok THEN Commit(Throw(Cur, l))
          ELSE Commit(Sleep(NoteCooldown(Cur, loop[l].bot, r.cooldown), l,
                            "dep_wait", "", BATCH_DELAY))

\* depositAll: the 3500 ms timer fired; the next item, or the end.
BatchDelayElapsed(l) ==
    /\ loop[l].pc = "dep_wait"
    /\ loop[l].wake = 0
    /\ Commit(DepositNext([Cur EXCEPT !.loop[l].items = Tail(@)], l))

\* performMainAction: getCharacters() settled (lines 384-404).
MainFetchReturns(l) ==
    /\ loop[l].pc = "pm_fetch"
    /\ \E outcome \in remote.fetch :
          LET b == loop[l].bot
              config == bot[b].config
          IN  IF ~outcome.ok
              THEN Commit(Throw(Cur, l))
              ELSE IF IsSome(outcome.character) /\ Has(config, "selectedMonster")
                   THEN LET monsterLocation ==
                                getMonsterPosition(config.selectedMonster,
                                    IF Has(config, "monsterSkin")
                                    THEN Some(config.monsterSkin) ELSE None)
                        IN  IF IsSome(monsterLocation)
                            THEN Commit(move(
                                   [Cur EXCEPT
                                      !.loop[l].character = outcome.character,
                                      !.loop[l].snapAt = Len(loop[l].trace)],
                                   l, The(monsterLocation).position, "act"))
                            ELSE Commit(LoopHead(
                                   log(Cur, b, "Could not find position"), l))
                   ELSE Commit(IssueMainAction(
                          [Cur EXCEPT !.loop[l].absent =
                                          ~IsSome(outcome.character)], l))

\* performMainAction: fight() or gather() settled (lines 406-421).
MainActionReturns(l) ==
    /\ loop[l].pc = "act"
    /\ \E r \in remote.action :
          LET b == loop[l].bot
              fighting == bot[b].config.actionType = "fight"
          IN  IF ~r.ok THEN Commit(Throw(Cur, l))
              ELSE \E payload \in IF fighting THEN remote.fight
                                  ELSE remote.gather :
                      LET s0 == IF IsSome(payload)
                                THEN [Cur EXCEPT !.bot[b].processed =
                                        [n |-> @.n + 1,
                                         xp |-> @.xp + The(payload).xp,
                                         gold |-> @.gold +
                                             IF fighting THEN The(payload).gold
                                             ELSE 0]]
                                ELSE Cur
                          s1 == SetCooldown(s0, b, r.cooldown)
                          s2 == IF fighting
                                THEN processFightResults(s1, b, payload)
                                ELSE processGatherResults(s1, b, payload)
                      IN  Commit(handleCooldown(s2, l, "end"))

\* executeCraftingCycle: getCharacters() settled (lines 283-316).
CycleFetchReturns(l) ==
    /\ loop[l].pc = "c_fetch"
    /\ \E outcome \in remote.fetch :
          IF ~outcome.ok \/ ~IsSome(outcome.character)
          THEN Commit([Throw(Cur, l) EXCEPT !.loop[l].absent = outcome.ok])
          ELSE LET c == The(outcome.character)
                   s1 == [Cur EXCEPT !.loop[l].character = Some(c),
                                     !.loop[l].full = InventoryIsFull(c)]
               IN  IF InventoryIsFull(c)
                   THEN Commit(moveToBank(s1, l, "deposit_all"))
                   ELSE Commit(executeCraftingStep(s1, l))

\* executeCraftingStep, case "withdraw": this.api.withdraw() settled.
WithdrawReturns(l) ==
    /\ loop[l].pc = "withdraw"
    /\ \E r \in remote.action :
          LET b == loop[l].bot
              item == StepItem(Cur, l)
              currentUsed ==
                  MapGet(bot[b].status.craftingStats.materialsUsed, item.code)
          IN  IF ~r.ok THEN Commit(Throw(Cur, l))
              ELSE Commit(handleCooldown(
                     log(updateCraftingStats(
                             SetCooldown(
                                 [Cur EXCEPT !.bot[b].succeeded.used =
                                     (item.code :> MapGet(@, item.code)
                                                       + item.quantity) @@ @],
                                 b, r.cooldown), b,
                             [materialsUsed |->
                                 (item.code :> currentUsed + item.quantity)]),
                         b, "Withdrawn"),
                     l, "step_ok"))

\* executeCraftingStep, case "deposit": this.api.deposit() settled.
DepositReturns(l) ==
    /\ loop[l].pc = "deposit"
    /\ \E r \in remote.action :
          LET b == loop[l].bot
              item == StepItem(Cur, l)
              currentCrafted ==
                  MapGet(bot[b].status.craftingStats.itemsCrafted, item.code)
          IN  IF ~r.ok THEN Commit(Throw(Cur, l))
              ELSE Commit(handleCooldown(
                     log(updateCraftingStats(
                             SetCooldown(
                                 [Cur EXCEPT !.bot[b].succeeded.made =
                                     (item.code :> MapGet(@, item.code)
                                                       + item.quantity) @@ @],
                                 b, r.cooldown), b,
                             [itemsCrafted |->
                                 (item.code :> currentCrafted + item.quantity)]),
                         b, "Deposited"),
                     l, "step_ok"))

\* executeCraftingStep, case "craft": this.api.craft() settled.
CraftReturns(l) ==
    /\ loop[l].pc = "craft"
    /\ \E r \in remote.action :
          LET b == loop[l].bot
          IN  IF ~r.ok THEN Commit(Throw(Cur, l))
              ELSE Commit(handleCooldown(
                     log(updateCraftingStats(
                             SetCooldown(
                                 [Cur EXCEPT !.bot[b].succeeded.crafts = @ + 1],
                                 b, r.cooldown), b,
                             [totalCrafts |->
                                 bot[b].status.craftingStats.totalCrafts + 1]),
                         b, "Crafted"),
                     l, "step_ok"))

\* executeCraftingCycle: the 5 s wait before the retry is over.
RetryWaitElapsed(l) ==
    /\ loop[l].pc = "retry_wait"
    /\ loop[l].wake = 0
    /\ Commit(CycleHead(Cur, l))

(***************************************************************************)
(* Commands: the socket handlers of index.ts, each one manager call.       *)
(***************************************************************************)
\* Names a client may send: two of the roster and one nobody registered.
CommandNames == {"Psy", "Atlas", "Ghost"}

\* Partial configurations a client may send with updateBotConfig.
PartialConfigs ==
    { [actionType |-> "gather", resource |-> "copper"],
      [characterName |-> "Atlas"],
      [apiToken |-> "other"] }

\* Cycles a client may send with updateCraftingCycle.
CommandCycles == {CycleSmelt}

\* socket.on("startBot", ...)
StartBot ==
    \E characterName \in CommandNames : Commit(startBot(Cur, characterName))

\* socket.on("stopBot", ...)
StopBot ==
    \E characterName \in CommandNames : Commit(stopBot(Cur, characterName))

\* socket.on("startAllBots", ...)
StartAllBots == Commit(startAllBots(Cur))

\* socket.on("stopAllBots", ...), and the SIGTERM/SIGINT handlers.
StopAllBots == Commit(stopAllBots(Cur))

\* A caller of the manager clears the log.
ClearLogs == Commit(clearLogs(Cur))

\* socket.on("updateBotConfig", ...)
UpdateBotConfig ==
    \E characterName \in CommandNames, config \in PartialConfigs :
        Commit(updateBotConfig(Cur, characterName, config))

\* socket.on("updateCraftingCycle", ...)
UpdateCraftingCycle ==
    \E characterName \in CommandNames, cycle \in CommandCycles :
        IF characterName \in DOMAIN botsConfig
        THEN Commit(updateBotConfig(Cur, characterName,
                 Merge(botsConfig[characterName],
                       [actionType |-> "craft", craftingCycle |-> cycle])))
        ELSE UNCHANGED vars

\* socket.on("removeCraftingCycle", ...): the config without craftingCycle is
\* passed as the partial update.
RemoveCraftingCycle ==
    \E characterName \in CommandNames :
        IF characterName \in DOMAIN botsConfig
        THEN LET currentConfig == botsConfig[characterName]
                 configWithoutCycle ==
                     [k \in DOMAIN currentConfig \ {"craftingCycle"} |->
                         currentConfig[k]]
             IN  Commit(updateBotConfig(Cur, characterName, configWithoutCycle))
        ELSE UNCHANGED vars

(***************************************************************************)
(* Time.                                                                   *)
(***************************************************************************)
\* The granularity of the clock of a timed run.
TickMs == COOLDOWN_MARGIN

\* TickMs milliseconds pass: every pending timer and cooldown is that much
\* closer.  Time does not pass beyond a timer that is ready to fire.
Tick ==
    /\ remote.timed
    /\ \E l \in LoopIds : loop[l].wake > 0
    /\ \A l \in LoopIds :
          loop[l].pc \in {"cooldown", "dep_wait", "notfound_wait", "error_wait",
                          "retry_wait"} => loop[l].wake > 0
    /\ loop' = [l \in LoopIds |->
                   [loop[l] EXCEPT !.wake = Max(0, @ - TickMs)]]
    /\ bot' = [b \in BotIds |->
                  [bot[b] EXCEPT
                     !.due = Max(0, @ - TickMs),
                     !.currentCooldown =
                         IF IsSome(@) THEN Some(Max(0, The(@) - TickMs))
                         ELSE @]]
    /\ UNCHANGED <<bots, botsConfig, botsStatus, logs, inserted, remote>>

(***************************************************************************)
(* Specifications.                                                         *)
(***************************************************************************)
\* new GameBotManager(token) with the given default roster.
Built(configs) ==
    LET s == initializeBots(
                 [bots |-> <<>>, botsConfig |-> <<>>, botsStatus |-> <<>>,
                  logs |-> <<>>, inserted |-> <<>>,
                  bot |-> [b \in BotIds |-> Unborn],
                  loop |-> [l \in LoopIds |-> FreeLoop], overflow |-> FALSE,
                  emitted |-> <<>>, said |-> <<>>],
                 configs)
    IN  /\ bots = s.bots
        /\ botsConfig = s.botsConfig
        /\ botsStatus = s.botsStatus
        /\ logs = s.logs
        /\ inserted = s.inserted
        /\ bot = s.bot
        /\ loop = s.loop

\* The steps of a loop of a fight or gather bot whose character is found.
CoreStep(l) ==
    \/ FetchReturns(l)
    \/ ErrorWaitElapsed(l)
    \/ RestReturns(l)
    \/ CooldownElapsed(l)
    \/ MoveReturns(l)
    \/ BatchDepositReturns(l)
    \/ BatchDelayElapsed(l)
    \/ MainActionReturns(l)

\* The steps only a crafting bot takes.
CraftStep(l) ==
    \/ CycleFetchReturns(l)
    \/ WithdrawReturns(l)
    \/ DepositReturns(l)
    \/ CraftReturns(l)
    \/ RetryWaitElapsed(l)

\* A run in which the API may give every response of the model.
FullRemote(isTimed) ==
    [timed |-> isTimed, fetch |-> FetchOutcomes, action |-> ActionOutcomes,
     fight |-> FightPayloads, gather |-> GatherPayloads, fuel |-> MaxIssued,
     loops |-> AgentLoops]

\* A run of the server: the character is found, in one of two conditions
\* (inventory full away from the bank and hurt; or at the bank, badly hurt);
\* an action fails or succeeds with a cooldown and one payload.
ServerRemote ==
    [timed |-> FALSE,
     fetch |-> {o \in FetchOutcomes :
                  /\ IsSome(o.character)
                  /\ The(o.character).hp < 50},
     action |-> {r \in ActionOutcomes : r.cooldown # Some(0)},
     fight |-> {p \in FightPayloads : IsSome(p) /\ IsSome(The(p).drops)},
     gather |-> {p \in GatherPayloads : IsSome(p) /\ IsSome(The(p).items)},
     fuel |-> ServerIssued, loops |-> MaxLoops]

\* A run of the server under reconfiguration: the character is found at the
\* bank, badly hurt, and every action succeeds with a cooldown.
ConfigRemote ==
    [timed |-> FALSE,
     fetch |-> {o \in ServerRemote.fetch : The(o.character).hp < 30},
     action |-> {r \in ActionOutcomes : r.ok /\ r.cooldown = Some(5000)},
     fight |-> ServerRemote.fight,
     gather |-> ServerRemote.gather,
     fuel |-> ConfigIssued, loops |-> MaxLoops]

(***************************************************************************)
(* Spec: the server's fleet control.  The manager with the first           *)
(* RosterSize default bots, start and stop commands from clients in any    *)
(* order, and the loops of the bots.                                       *)
(***************************************************************************)
Init ==
    /\ remote = ServerRemote
    /\ Built(SubSeq(DefaultConfigs, 1, RosterSize))

Next ==
    \/ StartBot
    \/ StopBot
    \/ StartAllBots
    \/ StopAllBots
    \/ ClearLogs
    \/ \E l \in LoopIds : CoreStep(l)

Spec == Init /\ [][Next]_vars

(***************************************************************************)
(* SpecConfig: the server under reconfiguration.  The manager with the     *)
(* first ConfigRoster default bots, configuration commands, start and      *)
(* stop.                                                                   *)
(***************************************************************************)
InitConfig ==
    /\ remote = ConfigRemote
    /\ Built(SubSeq(DefaultConfigs, 1, ConfigRoster))

NextConfig ==
    \/ StartBot
    \/ StopBot
    \/ StartAllBots
    \/ StopAllBots
    \/ UpdateBotConfig
    \/ UpdateCraftingCycle
    \/ RemoveCraftingCycle
    \/ \E l \in LoopIds : FetchReturns(l)
    \/ \E l \in LoopIds : RestReturns(l)
    \/ \E l \in LoopIds : CooldownElapsed(l)
    \/ \E l \in LoopIds : MainActionReturns(l)
    \/ \E l \in LoopIds : CycleFetchReturns(l)
    \/ \E l \in LoopIds : WithdrawReturns(l)
    \/ \E l \in LoopIds : CraftReturns(l)

SpecConfig == InitConfig /\ [][NextConfig]_vars

(***************************************************************************)
(* SpecAgent: one agent.  A manager built with one bot of any of the       *)
(* configurations below, started and stopped, against an API that may give *)
(* every response.                                                         *)
(***************************************************************************)
AgentConfigs ==
    LET base == [characterName |-> "Psy", apiToken |-> ApiToken]
    IN  { Merge(base, [actionType |-> "fight"]),
          Merge(base, [actionType |-> "fight", selectedMonster |-> "chicken"]),
          Merge(base, [actionType |-> "fight", fightLocation |-> Pos(0, 1),
                       selectedMonster |-> "chicken"]),
          Merge(base, [actionType |-> "fight", fightLocation |-> Pos(0, 1),
                       selectedMonster |-> "dragon"]),
          Merge(base, [actionType |-> "gather", resource |-> "iron"]),
          Merge(base, [actionType |-> "gather", resource |-> "gold"]),
          Merge(base, [actionType |-> "craft"]),
          Merge(base, [actionType |-> "craft", craftingCycle |-> CycleSmelt]),
          Merge(base, [actionType |-> "craft", craftingCycle |-> CycleStock]),
          Merge(base, [actionType |-> "craft", craftingCycle |-> CycleNoItem]),
          Merge(base, [actionType |-> "craft", craftingCycle |-> CycleUnknown]) }

InitAgent ==
    /\ remote = FullRemote(FALSE)
    /\ \E config \in AgentConfigs : Built(<<config>>)

NextAgent ==
    \/ StartBot
    \/ StopBot
    \/ \E l \in LoopIds : CoreStep(l)
    \/ \E l \in LoopIds : NotFoundWaitElapsed(l)
    \/ \E l \in LoopIds : MainFetchReturns(l)
    \/ \E l \in LoopIds : CraftStep(l)

SpecAgent == InitAgent /\ [][NextAgent]_vars

(***************************************************************************)
(* SpecTimed: one agent with a clock: a fighter, a gatherer, or a crafter   *)
(* that was given no cycle.                                                *)
(***************************************************************************)
TimedConfigs ==
    {c \in AgentConfigs :
        /\ ~Has(c, "fightLocation")
        /\ ~Has(c, "craftingCycle")}

InitTimed ==
    /\ remote = FullRemote(TRUE)
    /\ \E config \in TimedConfigs : Built(<<config>>)

NextTimed ==
    \/ StartBot
    \/ StopBot
    \/ Tick
    \/ \E l \in LoopIds : CoreStep(l)
    \/ \E l \in LoopIds : NotFoundWaitElapsed(l)

SpecTimed == InitTimed /\ [][NextTimed]_vars

(***************************************************************************)
(* Properties.                                                             *)
(***************************************************************************)
\* The awaits at which a remote game action of the loop is in flight.
InFlightPcs == {"rest", "move", "dep", "withdraw", "deposit", "craft", "act"}

\* The loops that have a game action for the character in flight.
InFlight(characterName) ==
    {l \in LoopIds :
        /\ loop[l].pc \in InFlightPcs
        /\ bot[loop[l].bot].config.characterName = characterName}

\* C1: for every character, at every moment and after any interleaving of
\* start and stop commands with the loops, at most one remote game action is
\* in flight for that character.
C1_OneActionInFlight ==
    \A characterName \in CommandNames :
        Cardinality(InFlight(characterName)) <= 1

\* C2: an agent never sends its next remote action before the most recently
\* returned cooldown expiration plus the 500 ms margin has passed, the
\* deposits of a full-inventory batch included.
C2_NoActionBeforeCooldown == \A b \in BotIds : ~bot[b].early

\* C3: after stop() the control loop that was running then finishes its
\* iteration in flight and begins no further one, whatever commands follow.
C3_StoppedLoopBeginsNoIteration == \A l \in LoopIds : ~loop[l].revived

\* The entries of the bots Map under a name.
Registered(entries, characterName) ==
    {i \in DOMAIN entries : entries[i][1] = characterName}

\* C4: for every known character C and every partial config, one carrying a
\* characterName included, after updateBotConfig(C, partial) exactly one
\* agent is registered under C, the stored config of C is the old one
\* overridden by the partial (with the manager's apiToken), and that agent
\* runs iff the agent registered under C ran before the call.
C4_UpdateKeepsOneAgent ==
    [][\A characterName \in CommandNames, partial \in PartialConfigs :
          (/\ characterName \in DOMAIN botsConfig
           /\ Commit(updateBotConfig(Cur, characterName, partial)))
          => LET before == BotsGet(bots, characterName)
                 after == BotsGet(bots', characterName)
             IN  /\ Cardinality(Registered(bots', characterName)) = 1
                 /\ botsConfig'[characterName] =
                        Merge(Merge(botsConfig[characterName], partial),
                              [apiToken |-> ApiToken])
                 /\ bot'[The(after)].isRunning =
                        (IsSome(before) /\ bot[The(before)].isRunning)]_vars

\* The deposit requests for the given slots, in order.
Deposits(slots) ==
    [i \in DOMAIN slots |-> ItemAct("deposit", slots[i])]

\* The game actions of a banking run for the fetched character: the move to
\* the bank unless it stands there, then a deposit per slot that holds
\* something.
Banking(character) ==
    (IF character.x = CRAFTING_LOCATIONS.bank.x
        /\ character.y = CRAFTING_LOCATIONS.bank.y
     THEN <<>> ELSE <<MoveAct(CRAFTING_LOCATIONS.bank)>>)
    \o Deposits(SelectSeq(character.inventory,
                          LAMBDA slot : slot.code # "" /\ slot.quantity > 0))

IsPrefix(a, b) == Len(a) <= Len(b) /\ a = SubSeq(b, 1, Len(a))

\* The trace without a rest at its head.
AfterAnyRest(trace) ==
    IF trace # <<>> /\ trace[1] = Act("rest") THEN Tail(trace) ELSE trace

\* C5 (as the code has it): in an iteration (fight or gather) or before a
\* crafting step in which the fetched character's inventory sums to 100 or
\* more, the loop sends, after the rest a hurt fighter or gatherer takes
\* first, only the move to the bank (none if the character stands there)
\* and then the deposits of the slots holding an item, in slot order; it
\* sends no fight, gather or craft, and stops short when a call fails.
C5_FullInventoryBanksFirst ==
    \A l \in LoopIds :
        loop[l].full =>
            IsPrefix(AfterAnyRest(loop[l].trace),
                     Banking(The(loop[l].character)))

\* A full inventory away from the bank was fetched, and the loop has sent the
\* move and every deposit: the last one has returned.
C5_BankingDone ==
    \E l \in LoopIds :
        /\ loop[l].full
        /\ loop[l].pc = "dep_wait"
        /\ Len(loop[l].items) = 1
        /\ MoveAct(CRAFTING_LOCATIONS.bank) \in
               {loop[l].trace[i] : i \in DOMAIN loop[l].trace}
        /\ AfterAnyRest(loop[l].trace) = Banking(The(loop[l].character))

\* C5 as stated: with a full inventory fetched, the very next remote actions
\* are a move to the bank and then a deposit of every inventory slot.
C5_MoveThenEverySlot ==
    \A l \in LoopIds :
        loop[l].full =>
            IsPrefix(loop[l].trace,
                     <<MoveAct(CRAFTING_LOCATIONS.bank)>>
                     \o Deposits(The(loop[l].character).inventory))

\* C6: a craft agent that stays running attempts the steps of its cycle in
\* order: the next step only after a success, the same step after a failure,
\* the first step again only after the last one succeeded.
C6_StepsInCycleOrder ==
    \A l \in LoopIds : ~loop[l].stopped => ~loop[l].outOfOrder

\* C7: the published cycleProgress is floor(currentStep / N * 100) for the
\* step the interpreter is at; it is 0 whenever the interpreter is at step 0.
C7_ProgressMatchesStep ==
    \A l \in LoopIds :
        loop[l].inCycle =>
            LET b == loop[l].bot
            IN  bot[b].status.craftingStats.cycleProgress =
                    CycleProgress(loop[l].currentStep,
                                  Len(bot[b].config.craftingCycle.steps))

\* C8: whenever a crafting step attempt fails, currentStep is not advanced
\* and failedCrafts grows by exactly one.
C8_FailedAttemptCounted ==
    [][\A l \in LoopIds :
          (loop[l].pc # "retry_wait" /\ loop'[l].pc = "retry_wait")
          => /\ loop'[l].currentStep = loop[l].currentStep
             /\ bot'[loop'[l].bot].status.craftingStats.failedCrafts =
                    bot[loop'[l].bot].status.craftingStats.failedCrafts + 1]_vars

\* C9: after a fight result with drops or a gather result with items is
\* processed, itemsCollected maps each returned code to its previous quantity
\* plus the returned one and leaves the other codes alone.
C9_ItemsFolded ==
    \A b \in BotIds : bot[b].status.itemsCollected = bot[b].expected

\* C10: a status object the agent has published is never changed afterwards.
C10_PublishedStatusUnchanged ==
    \A b \in BotIds : bot[b].status = bot[b].published

\* The log entry start()'s catch writes for the bot of loop record r.
ErrorEntry(r) ==
    [characterName |-> bot[r.bot].config.characterName, message |-> "Error"]

\* C11: the control loop never ends because of a failure: a failure (remote
\* call, character lookup, missing crafting cycle, invalid resource) is
\* logged and followed by the 5 s wait, after which the loop runs another iteration unless stop()
\* was called; a loop that has terminated was stopped.
C11_LoopSurvivesFailure ==
    [][\A l \in LoopIds :
          /\ (loop[l].pc # "free" /\ loop'[l].pc = "free")
             => loop[l].stopped /\ ~bot'[loop[l].bot].isRunning
          /\ (loop[l].pc # "error_wait" /\ loop'[l].pc = "error_wait")
             => /\ logs' # <<>>
                /\ logs'[1] = ErrorEntry(loop[l])
                /\ loop'[l].wake = RETRY_DELAY
          /\ (loop[l].pc # "notfound_wait" /\ loop'[l].pc = "notfound_wait")
             => /\ logs' # <<>>
                /\ logs'[1] = [ErrorEntry(loop[l]) EXCEPT
                                  !.message = "Character not found"]
                /\ loop'[l].wake = RETRY_DELAY
          /\ (loop[l].pc \in {"error_wait", "notfound_wait"}
              /\ loop'[l].pc # loop[l].pc)
             => /\ loop[l].wake = 0
                /\ \/ loop'[l].pc = "fetch"
                   \/ loop[l].stopped /\ loop'[l].pc = "free"]_vars

\* A loop that was never stopped has begun another iteration after the catch
\* of start() logged a failure.
C11_IterationAfterError ==
    \E l \in LoopIds :
        /\ loop[l].pc = "fetch"
        /\ ~loop[l].stopped
        /\ logs # <<>>
        /\ logs[1] = ErrorEntry(loop[l])

\* C12: a failure inside an iteration is observable as a log entry and as
\* the lastError field of the agent's published status: while the loop waits
\* after start()'s catch, the status has a lastError.
C12_FailureSetsLastError ==
    \A l \in LoopIds :
        loop[l].pc = "error_wait" =>
            /\ logs # <<>>
            /\ Has(bot[loop[l].bot].status, "lastError")

\* The iteration of loop l has sent a rest action.
Rested(l) ==
    \E i \in DOMAIN loop[l].trace : loop[l].trace[i] = Act("rest")

\* The rest condition of the claim, on the kind of loop l's bot and the
\* character its iteration fetched.
BelowThreshold(kind, c) ==
    \/ kind = "fight" /\ c.hp * 100 < 50 * c.max_hp
    \/ kind = "gather" /\ c.hp * 100 < 30 * c.max_hp

\* C13: a rest action is sent only by an iteration whose fetch returned the
\* character, and that iteration sends it if and only if the bot fights and
\* hp*100 < 50*max_hp, or gathers and hp*100 < 30*max_hp; a crafting bot
\* never rests.
C13_RestIffBelowThreshold ==
    [][\A l \in LoopIds :
          /\ (loop[l].pc # "rest" /\ loop'[l].pc = "rest")
             => /\ loop[l].pc = "fetch"
                /\ IsSome(loop'[l].character)
                /\ BelowThreshold(bot[loop[l].bot].config.actionType,
                                  The(loop'[l].character))
          /\ (loop[l].pc = "fetch" /\ IsSome(loop'[l].character)
                  /\ BelowThreshold(bot[loop[l].bot].config.actionType,
                                    The(loop'[l].character)))
             => loop'[l].pc = "rest"
          /\ (loop[l].pc # "free"
                  /\ bot[loop[l].bot].config.actionType = "craft")
             => ~Rested(l)']_vars

\* A fighting bot fetched at 40% has rested and gone on.
C13_RestedAndWentOn ==
    \E l \in LoopIds :
        /\ loop[l].pc \notin {"free", "rest"}
        /\ bot[loop[l].bot].config.actionType = "fight"
        /\ bot[loop[l].bot].status.currentHp = 40
        /\ loop[l].trace # <<>>
        /\ loop[l].trace[1] = Act("rest")
        /\ Len(loop[l].trace) > 1

\* C14: the manager's log never holds more than MAX_LOGS entries, and it is
\* exactly the most recently inserted entries since the last clearLogs, most
\* recent first (inserting into a full log evicts the oldest entry).
C14_LogHoldsMostRecent ==
    /\ Len(logs) <= MAX_LOGS
    /\ logs = inserted

\* A full log that holds the two entries of a stop, the bot's own above the
\* manager's: the entries of the start before it are gone.
C14_StartEntriesEvicted ==
    /\ Len(logs) = MAX_LOGS
    /\ logs[1].message = "Bot stopped"
    /\ \E b \in BotIds : bot[b].issued > 0 /\ ~bot[b].isRunning
                         /\ bot[b].config.characterName = logs[1].characterName

\* C15: start() on a running bot changes nothing (no status, no log entry,
\* no further loop); on a bot that is not running it sets the flag, publishes
\* a status with isRunning = TRUE, logs, and begins one loop at its fetch.
C15_StartIdempotent ==
    \A b \in BotIds :
        bot[b].alive =>
            LET s == start(Cur, b)
                began == {l \in LoopIds : s.loop[l] # loop[l]}
            IN  IF bot[b].isRunning
                THEN s = Cur
                ELSE \/ s.overflow
                     \/ /\ s.bot[b].isRunning
                        /\ s.bot[b].status.isRunning
                        /\ s.bot[b].status =
                               [bot[b].status EXCEPT !.isRunning = TRUE]
                        /\ s.botsStatus[bot[b].config.characterName] = b
                        /\ s.logs[1] =
                               [characterName |-> bot[b].config.characterName,
                                message |-> "Bot started"]
                        /\ \E l \in LoopIds :
                              /\ began = {l}
                              /\ loop[l].pc = "free"
                              /\ s.loop[l].bot = b
                              /\ s.loop[l].pc = "fetch"

\* startAllBots() found every bot running: both of its entries are the
\* manager's, with no "Bot started" of a bot between them.
C15_StartedWhileRunning ==
    /\ Len(logs) = 2
    /\ logs[1].message = "Bot started (mass start)"
    /\ logs[2].message = "Bot started (mass start)"
    /\ \A i \in DOMAIN bots : bot[bots[i][2]].isRunning
    /\ \E l \in LoopIds : loop[l].pc # "free"

\* C16: every config the manager stores and every config a registered bot
\* holds has the apiToken the manager was constructed with, whatever the
\* partial configs of the updates supplied.
C16_TokenIsTheManagers ==
    /\ \A name \in DOMAIN botsConfig : botsConfig[name].apiToken = ApiToken
    /\ \A i \in DOMAIN bots : bot[bots[i][2]].config.apiToken = ApiToken

\* The bot registered under the first name is a replacement that holds the
\* default config: the update that created it carried an apiToken (a foreign
\* one, or the whole current config) and nothing else that changed.
C16_TokenUpdateForcedBack ==
    \E i \in DOMAIN bots :
        /\ bots[i][1] = DefaultConfigs[1].characterName
        /\ bots[i][2] > ConfigRoster
        /\ bot[bots[i][2]].config = DefaultConfigs[1]
        /\ botsConfig[bots[i][1]] = DefaultConfigs[1]

\* C17: updateBotConfig(name, partial) with a name no agent is registered
\* under is a no-op: the three maps, the log, the bots and their loops are
\* as before.
C17_UnregisteredUpdateIsNoOp ==
    \A name \in CommandNames, partial \in PartialConfigs :
        Registered(bots, name) = {} =>
            LET s == updateBotConfig(Cur, name, partial)
            IN  s.overflow \/ s = Cur

\* The keys of the bots Map.
BotNames == {bots[i][1] : i \in DOMAIN bots}

\* getBotCount()
getBotCount == Len(bots)

\* C18: after any sequence of manager operations the agent map, the config
\* map and the status map have the same keys, the names of the default
\* roster; every registered agent's configured name is its key, and
\* getBotCount() is the size of the roster.
C18_RosterIsFixed ==
    /\ BotNames = {DefaultConfigs[i].characterName : i \in 1..ConfigRoster}
    /\ DOMAIN botsConfig = BotNames
    /\ DOMAIN botsStatus = BotNames
    /\ \A i \in DOMAIN bots :
          bot[bots[i][2]].config.characterName = bots[i][1]
    /\ getBotCount = ConfigRoster

\* C19: for every bot, totalActions is the number of fight/gather responses
\* processed with a result, totalXp the sum of their xp and totalGold the sum
\* of the gold of the fights; no step decreases a counter, and only the
\* return of a fight or gather changes one.
C19_CountersMatchResults ==
    [][\A b \in BotIds :
          LET before == bot[b].status
              after == bot'[b].status
          IN  /\ after.totalActions = bot'[b].processed.n
              /\ after.totalXp = bot'[b].processed.xp
              /\ after.totalGold = bot'[b].processed.gold
              /\ after.totalActions >= before.totalActions
              /\ after.totalXp >= before.totalXp
              /\ after.totalGold >= before.totalGold
              /\ (<<after.totalActions, after.totalXp, after.totalGold>>
                    # <<before.totalActions, before.totalXp, before.totalGold>>)
                 => \E l \in LoopIds : loop[l].bot = b /\ loop[l].pc = "act"]_vars

\* A bot has fought twice for xp and gold, and moved in between.
C19_TwoFightsCounted ==
    \E b \in BotIds :
        /\ bot[b].alive
        /\ bot[b].config.actionType = "fight"
        /\ bot[b].status.totalActions = 2
        /\ bot[b].status.totalGold = 4
        /\ bot[b].issued > 2

\* getRunningBots(): the names whose stored status has isRunning.
getRunningBots ==
    {name \in DOMAIN botsStatus : bot[botsStatus[name]].status.isRunning}

\* C20: the status the manager stores for a character is that of the agent
\* registered under it, so getRunningBots() is exactly the set of characters
\* whose registered agent is running.
C20_StatusOfRegisteredAgent ==
    /\ \A i \in DOMAIN bots : botsStatus[bots[i][1]] = bots[i][2]
    /\ getRunningBots = {bots[i][1] : i \in {j \in DOMAIN bots :
                                                 bot[bots[j][2]].isRunning}}

\* C21: after the remove-crafting-cycle command is handled for a known
\* character, the config stored for it, and the config of the agent then
\* registered under it, have no crafting cycle.
C21_RemovedCycleIsGone ==
    [][\A characterName \in CommandNames :
          (/\ characterName \in DOMAIN botsConfig
           /\ Commit(updateBotConfig(Cur, characterName,
                  [k \in DOMAIN botsConfig[characterName] \ {"craftingCycle"}
                      |-> botsConfig[characterName][k]])))
          => /\ ~Has(botsConfig'[characterName], "craftingCycle")
             /\ \A i \in Registered(bots', characterName) :
                   ~Has(bot'[bots'[i][2]].config, "craftingCycle")]_vars

\* The step types executeCraftingStep has a case for.
StepTypes == {"withdraw", "deposit", "craft", "move"}

\* The crafting step loop l is at.
CurrentStep(l) ==
    bot[loop[l].bot].config.craftingCycle.steps[loop[l].currentStep + 1]

\* C22: a crafting step of an unknown type is a failed step: it is logged,
\* counted in failedCrafts, currentStep stays, and the interpreter waits and
\* goes on.
C22_UnknownStepIsAFailure ==
    [][\A l \in LoopIds :
          (/\ loop[l].pc = "c_fetch"
           /\ loop'[l].pc = "retry_wait"
           /\ CurrentStep(l).type \notin StepTypes)
          => LET b == loop[l].bot
             IN  /\ logs'[1] = [characterName |-> bot[b].config.characterName,
                                message |-> "Unknown crafting step type"]
                 /\ loop'[l].currentStep = loop[l].currentStep
                 /\ bot'[b].status.craftingStats.failedCrafts =
                        bot[b].status.craftingStats.failedCrafts + 1]_vars

\* The configured monster (fight) or resource (gather) has no known location.
Unresolved(config) ==
    \/ /\ config.actionType = "fight"
       /\ Has(config, "fightLocation")
       /\ Has(config, "selectedMonster")
       /\ ~IsSome(getMonsterPosition(config.selectedMonster,
                      IF Has(config, "monsterSkin")
                      THEN Some(config.monsterSkin) ELSE None))
    \/ /\ config.actionType = "gather"
       /\ Has(config, "resource")
       /\ config.resource \notin DOMAIN RESOURCE_POSITIONS

\* The places a loop is at when an iteration may begin without the target
\* having been given up in between: no loop yet, a timed wait after a
\* failure, or the end of a deposit batch.
MayBeginIteration == {"free", "error_wait", "notfound_wait", "dep", "dep_wait"}

\* C23: a bot whose target has no known location sends no fight or gather,
\* and an iteration of it begins only after a timed wait (never straight
\* from the point where the resolution failed).
C23_UnresolvedTargetWaits ==
    [][\A l \in LoopIds :
          (loop'[l].pc # "free" /\ Unresolved(bot'[loop'[l].bot].config))
          => /\ loop'[l].pc # "act"
             /\ (loop[l].pc # "fetch" /\ loop'[l].pc = "fetch")
                => loop[l].pc \in MayBeginIteration]_vars

\* The resolved location of the configured target: of the monster of a fight
\* bot, of the resource of a gather bot; None without a target or a location.
TargetPosition(config) ==
    IF config.actionType = "fight" /\ Has(config, "selectedMonster")
    THEN LET monsterLocation ==
                 getMonsterPosition(config.selectedMonster,
                     IF Has(config, "monsterSkin")
                     THEN Some(config.monsterSkin) ELSE None)
         IN  IF IsSome(monsterLocation)
             THEN Some(The(monsterLocation).position) ELSE None
    ELSE IF /\ config.actionType = "gather"
            /\ Has(config, "resource")
            /\ config.resource \in DOMAIN RESOURCE_POSITIONS
         THEN Some(RESOURCE_POSITIONS[config.resource])
         ELSE None

\* C24: while the fight or gather of a bot with a resolved target is in
\* flight, the iteration has sent the move to the target's location, or the
\* character it fetched stood there.
C24_ActsAtTheTarget ==
    \A l \in LoopIds :
        (loop[l].pc = "act" /\ IsSome(TargetPosition(bot[loop[l].bot].config)))
        => LET pos == The(TargetPosition(bot[loop[l].bot].config))
               character == The(loop[l].character)
           IN  \/ \E i \in DOMAIN loop[l].trace : loop[l].trace[i] = MoveAct(pos)
               \/ character.x = pos.x /\ character.y = pos.y

\* C25: every decision that reads the character (the inventory check, the
\* position comparison of a move, the list of slots to deposit) is made
\* before any action has been awaited since that character was fetched.
C25_NoStaleCharacter == \A l \in LoopIds : ~loop[l].staleUse

\* Loop l is in the bank preemption of its crafting cycle.
Preempted(l) ==
    /\ loop[l].inCycle
    /\ loop[l].full
    /\ loop[l].pc \in {"move", "cooldown", "dep", "dep_wait"}

\* C26: the steps of a bank preemption inside the crafting cycle (the move,
\* the deposits, the waits between them, and a stop() that reaches the loop
\* meanwhile) leave currentStep and the crafting statistics (cycleProgress
\* and the counters) as they were; when its last deposit is done and the
\* bot still runs, the interpreter fetches the character again with the
\* same currentStep, and the step attempted after a fetch is the one
\* currentStep names.
C26_PreemptionKeepsPosition ==
    [][\A l \in LoopIds :
          /\ (Preempted(l) /\ loop'[l] # loop[l])
             => LET b == loop[l].bot
                IN  /\ bot'[b].status.craftingStats =
                           bot[b].status.craftingStats
                    /\ loop'[l].inCycle
                       => loop'[l].currentStep = loop[l].currentStep
                    /\ (/\ loop[l].pc = "dep_wait"
                        /\ Len(loop[l].items) = 1
                        /\ loop'[l].pc # "dep_wait"
                        /\ bot[b].isRunning)
                       => /\ loop'[l].pc = "c_fetch"
                          /\ loop'[l].inCycle
          /\ (/\ loop[l].pc = "c_fetch"
              /\ loop'[l].pc \notin {"c_fetch", "error_wait", "free"}
              /\ ~loop'[l].full)
             => loop'[l].lastStep = Some(loop[l].currentStep)]_vars

\* In a cycle whose first step is done, the last deposit of a preemption
\* has returned.
C26_PreemptedAfterFirstStep ==
    \E l \in LoopIds :
        /\ Preempted(l)
        /\ loop[l].currentStep > 0
        /\ loop[l].pc = "dep_wait"
        /\ Len(loop[l].items) = 1

\* The places a loop awaits getCharacters().
FetchPcs == {"fetch", "c_fetch", "pm_fetch"}

\* C27: when the fetched list has no entry for the character, whatever the
\* action kind and also inside the crafting cycle, the loop logs "Character
\* not found", sends no game action, leaves the status and the crafting
\* position as they were, and waits (5 s) before another iteration.
C27_AbsentCharacterIsHarmless ==
    [][\A l \in LoopIds :
          (loop[l].pc \in FetchPcs /\ loop'[l].absent)
          => LET b == loop[l].bot
             IN  /\ loop'[l].pc = "notfound_wait"
                 /\ logs'[1] = [characterName |-> bot[b].config.characterName,
                                message |-> "Character not found"]
                 /\ bot'[b].issued = bot[b].issued
                 /\ bot'[b].status = bot[b].status
                 /\ loop'[l].inCycle = loop[l].inCycle
                 /\ loop'[l].currentStep = loop[l].currentStep]_vars

\* C28: for every bot, materialsUsed maps each item to the summed
\* quantities of its withdraw steps whose call succeeded, itemsCrafted each
\* item to the summed quantities of its deposit steps whose call succeeded,
\* and totalCrafts is the number of craft calls that succeeded (a failed
\* call changes none of them, entries of other items stay).
C28_CraftingStatsMatchCalls ==
    \A b \in BotIds :
        LET stats == bot[b].status.craftingStats
        IN  /\ stats.materialsUsed = bot[b].succeeded.used
            /\ stats.itemsCrafted = bot[b].succeeded.made
            /\ stats.totalCrafts = bot[b].succeeded.crafts

\* Ore was withdrawn twice and coal once: the ore's entry is the sum, next
\* to the coal's.
C28_TwoItemsWithdrawn ==
    \E b \in BotIds :
        /\ MapGet(bot[b].status.craftingStats.materialsUsed, "copper_ore") = 16
        /\ MapGet(bot[b].status.craftingStats.materialsUsed, "coal") = 2

\* getBotStatus(characterName), for a name the status Map has.
getBotStatus(characterName) == bot[botsStatus[characterName]].status

\* C29: right after startBot(name) returns for a registered name the status
\* the manager holds for it has isRunning TRUE, and right after
\* stopBot(name) returns it has isRunning FALSE.
C29_StatusFollowsCommand ==
    [][\A characterName \in CommandNames :
          Registered(bots, characterName) # {}
          => /\ Commit(startBot(Cur, characterName))
                => getBotStatus(characterName)'.isRunning
             /\ Commit(stopBot(Cur, characterName))
                => ~getBotStatus(characterName)'.isRunning]_vars

\* C30: after startAllBots() returns every registered agent runs; after
\* stopAllBots() returns no agent the manager has created has its running
\* flag set, and getRunningBots() is empty.
C30_MassCommandsReachEveryAgent ==
    [][/\ Commit(startAllBots(Cur))
          => \A i \in DOMAIN bots' : bot'[bots'[i][2]].isRunning
       /\ Commit(stopAllBots(Cur))
          => /\ \A b \in BotIds : ~bot'[b].isRunning
             /\ getRunningBots' = {}]_vars

\* C31: the manager appends a log entry of its own only when the agent's
\* running flag changes: startBot(name) for an agent that already runs, and
\* stopBot(name) for an agent that does not run, leave the log as it was.
C31_LogOnlyOnTransition ==
    [][\A characterName \in CommandNames :
          LET found == BotsGet(bots, characterName)
          IN  IsSome(found)
              => /\ (/\ bot[The(found)].isRunning
                     /\ Commit(startBot(Cur, characterName)))
                    => logs' = logs
                 /\ (/\ ~bot[The(found)].isRunning
                     /\ Commit(stopBot(Cur, characterName)))
                    => logs' = logs]_vars

\* The events of one type among those emitted, in order.
EventsOf(emitted, type) == SelectSeq(emitted, LAMBDA e : e.type = type)

\* The positions in emitted of the log events of bot b with the message.
LogEventAt(emitted, b, message) ==
    {i \in DOMAIN emitted :
        /\ emitted[i].type = "log"
        /\ emitted[i].from = b
        /\ emitted[i].message = message}

\* C32: updateBotConfig(name, partial) for a name that has a configuration
\* emits exactly one configUpdate event, with the merged configuration, as
\* the last thing it does: by then the agent that was registered is stopped
\* if it ran, a new agent with the merged configuration is registered under
\* the name, and that agent runs if the old one ran; the old agent's stop
\* comes before anything the new agent does.
C32_ConfigUpdateEmittedLast ==
    \A characterName \in CommandNames, partial \in PartialConfigs :
        LET s == updateBotConfig(Cur, characterName, partial)
            old == BotsGet(bots, characterName)
            new == BotsGet(s.bots, characterName)
            wasRunning == IsSome(old) /\ bot[The(old)].isRunning
            updates == EventsOf(s.emitted, "configUpdate")
        IN  (characterName \in DOMAIN botsConfig /\ ~s.overflow)
            => /\ Len(updates) = 1
               /\ updates[1].config =
                      Merge(Merge(botsConfig[characterName], partial),
                            [apiToken |-> ApiToken])
               /\ updates[1].characterName = characterName
               /\ s.emitted[Len(s.emitted)].type = "configUpdate"
               /\ IsSome(new)
               /\ ~bot[The(new)].alive
               /\ s.bot[The(new)].config = updates[1].config
               /\ wasRunning
                  => /\ ~s.bot[The(old)].isRunning
                     /\ s.bot[The(new)].isRunning
                     /\ \A i \in LogEventAt(s.emitted, The(old), "Bot stopped"),
                           j \in DOMAIN s.emitted :
                           (/\ s.emitted[j].type # "configUpdate"
                            /\ s.emitted[j].from = The(new)) => i < j

\* Messages a bot logs from its loop.
LoopMessages == {"Inventory full", "HP low, resting"}

\* What each call a client or a bot's loop may make now would leave behind:
\* the commands of the manager, and a log event of a registered bot.
Emissions ==
    {startBot(Cur, n) : n \in CommandNames}
    \cup {stopBot(Cur, n) : n \in CommandNames}
    \cup {startAllBots(Cur), stopAllBots(Cur)}
    \cup {updateBotConfig(Cur, n, p) : n \in CommandNames, p \in PartialConfigs}
    \cup {log(Cur, bots[i][2], m) : i \in DOMAIN bots, m \in LoopMessages}

\* C33: the log events the manager emits are, one for one and in the same
\* order, the log events the bots emitted; each carries the character name
\* of the bot it came from, and when it is emitted the manager's log is the
\* log the listener found with exactly that entry put in front (cut to
\* MAX_LOGS).
C33_LogEventsRelayedInOrder ==
    \A s \in Emissions :
        LET relayed == EventsOf(s.emitted, "log")
        IN  /\ Len(relayed) = Len(s.said)
            /\ \A i \in DOMAIN relayed :
                  LET e == relayed[i]
                      logEntry == [characterName |-> e.characterName,
                                   message |-> e.message]
                  IN  /\ e.from = s.said[i].from
                      /\ e.message = s.said[i].message
                      /\ e.characterName = s.bot[e.from].config.characterName
                      /\ e.after = Take(<<logEntry>> \o e.before, MAX_LOGS)

\* The registered bot has logged from its loop after it was started: its
\* entry lies above the manager's "Bot started", under the same name, and
\* the rest it announced is in flight.
C33_LoopEntryAboveManagers ==
    /\ Len(logs) = MAX_LOGS
    /\ logs[1].message = "HP low, resting"
    /\ logs[2].message = "Bot started"
    /\ logs[1].characterName = logs[2].characterName
    /\ \E i \in DOMAIN bots, l \in LoopIds :
          /\ bots[i][1] = logs[1].characterName
          /\ bot[bots[i][2]].isRunning
          /\ loop[l].bot = bots[i][2]
          /\ loop[l].pc = "rest"

\* The continuation of loop l that runs when the game action or the timer
\* it awaits settles.
Settles(l) ==
    \/ ErrorWaitElapsed(l)
    \/ RestReturns(l)
    \/ CooldownElapsed(l)
    \/ MoveReturns(l)
    \/ BatchDepositReturns(l)
    \/ BatchDelayElapsed(l)
    \/ MainActionReturns(l)

\* Any continuation of loop l.
LoopStep(l) ==
    \/ CoreStep(l)
    \/ NotFoundWaitElapsed(l)
    \/ MainFetchReturns(l)
    \/ CraftStep(l)

\* Every bot but b, and every loop of such a bot, is after the step what it
\* was before: running flag, status, cooldown, and where its loop stands.
OthersUnchanged(b) ==
    /\ \A o \in BotIds \ {b} : bot'[o] = bot[o]
    /\ \A l \in LoopIds :
          loop[l].bot \notin {0, b} => loop'[l] = loop[l]

\* The run is followed further: another game action may still be sent.
FuelLeft == TotalIssued(Cur, MaxBots) < remote.fuel

\* C34: a continuation of one bot's loop (an action's result, a failure and
\* its retry delay, a status update) and a start or stop of one bot leave
\* every other bot and its loops unchanged; and whatever the loops of the
\* other bots are waiting for, a loop that awaits a game action or a timer
\* can take its next step.
C34_AgentsAreIndependent ==
    /\ [](\A l \in LoopIds :
            (loop[l].pc \notin {"free", "fetch"} /\ FuelLeft)
            => ENABLED Settles(l))
    /\ [][/\ \A l \in LoopIds :
               (loop[l].pc # "free" /\ LoopStep(l))
               => OthersUnchanged(loop[l].bot)
          /\ \A characterName \in CommandNames :
               LET found == BotsGet(bots, characterName)
               IN  (/\ IsSome(found)
                    /\ \/ Commit(stopBot(Cur, characterName))
                       \/ Commit(startBot(Cur, characterName)))
                   => OthersUnchanged(The(found))]_vars

\* Two bots run at once: the loop of one sits out the delay after a failed
\* call while the other bot, whose action succeeded, is cooling down.
C34_OneFailedOneAtWork ==
    \E l1, l2 \in LoopIds :
        /\ loop[l1].bot # 0
        /\ loop[l2].bot # 0
        /\ loop[l1].bot # loop[l2].bot
        /\ bot[loop[l1].bot].isRunning
        /\ bot[loop[l2].bot].isRunning
        /\ loop[l1].pc = "error_wait"
        /\ loop[l2].pc = "cooldown"
        /\ IsSome(bot[loop[l2].bot].currentCooldown)
        /\ ~IsSome(bot[loop[l1].bot].currentCooldown)

\* The character is at the position.
At(character, p) == character.x = p.x /\ character.y = p.y

\* Where a move step goes: the station it names, or its explicit position.
StepTarget(step) ==
    IF Has(step, "location") THEN CRAFTING_LOCATIONS[step.location]
    ELSE step.position

\* While a call of a crafting step is in flight, what the loop has sent
\* since it fetched the character: for a withdraw or deposit the call alone
\* when the character was at the bank, else a move to the bank and then the
\* call; for a craft the call alone.
StepCallInPlace(l) ==
    LET call == ItemAct(loop[l].pc, StepItem(Cur, l))
        character == The(loop[l].character)
    IN  /\ CurrentStep(l).type = loop[l].pc
        /\ loop[l].trace =
              IF loop[l].pc = "craft" \/ At(character, CRAFTING_LOCATIONS.bank)
              THEN <<call>>
              ELSE <<MoveAct(CRAFTING_LOCATIONS.bank), call>>

\* The loop goes on from a move step to the step after it.
MoveStepAdvances(l) ==
    /\ loop[l].inCycle
    /\ loop'[l].inCycle
    /\ loop'[l].bot = loop[l].bot
    /\ loop'[l].currentStep = loop[l].currentStep + 1
    /\ CurrentStep(l).type = "move"
    /\ Has(CurrentStep(l), "location") \/ Has(CurrentStep(l), "position")

\* C35: a withdraw or deposit call of a crafting step is sent only after a
\* move to the bank, unless the character just fetched was at the bank; a
\* craft call is sent with no move; and a move step to a station or
\* position is left behind only once the move there has been sent and
\* answered, or the character just fetched was found there.
C35_StepCallsWhereTheyBelong ==
    /\ [](\A l \in LoopIds :
            (loop[l].inCycle /\ loop[l].pc \in {"withdraw", "deposit", "craft"})
            => StepCallInPlace(l))
    /\ [][\A l \in LoopIds :
             MoveStepAdvances(l)
             => LET target == StepTarget(CurrentStep(l))
                IN  \/ /\ loop[l].pc \in {"move", "cooldown"}
                       /\ loop[l].trace = <<MoveAct(target)>>
                    \/ /\ loop[l].pc = "cooldown"
                       /\ loop[l].trace = <<>>
                       /\ At(The(loop[l].character), target)
                    \/ /\ loop[l].pc = "c_fetch"
                       /\ \E outcome \in remote.fetch :
                             /\ IsSome(outcome.character)
                             /\ At(The(outcome.character), target)]_vars

\* The craft call of the second step is in flight, sent with no move, for a
\* character fetched away from the bank after the withdrawal succeeded.
C35_CraftSentWithoutMove ==
    \E l \in LoopIds :
        /\ loop[l].inCycle
        /\ loop[l].pc = "craft"
        /\ loop[l].currentStep = 1
        /\ loop[l].trace = <<ItemAct("craft", StepItem(Cur, l))>>
        /\ ~At(The(loop[l].character), CRAFTING_LOCATIONS.bank)
        /\ bot[loop[l].bot].succeeded.used # EmptyMap

(***************************************************************************)
(* GameBotManager: the queries.  Each gives the state it leaves and the    *)
(* value it returns; a returned array says whether it is the manager's own *)
(* array (live) or a new one.                                              *)
(***************************************************************************)
Returned(s, value) == [state |-> s, value |-> value]

\* Array.prototype.slice(begin, end) for begin >= 0: a new array.
Slice(seq, begin, end) ==
    LET len == Len(seq)
        to == IF end < 0 THEN Max(len + end, 0)
              ELSE IF end > len THEN len ELSE end
    IN  IF begin >= to THEN <<>> ELSE SubSeq(seq, begin + 1, to)

getBotConfig(s, characterName) ==
    Returned(s, IF characterName \in DOMAIN s.botsConfig
                THEN Some(s.botsConfig[characterName]) ELSE None)

getAllConfigs(s) ==
    Returned(s, [n \in DOMAIN s.botsConfig |-> s.botsConfig[n]])

getRecentLogs(s, count) ==
    Returned(s, [live |-> FALSE, elems |-> Slice(s.logs, 0, count)])

\* A getAllLogs that returns this.logs itself.
getAllLogsLive(s) == Returned(s, [live |-> TRUE, elems |-> s.logs])

\* return [...this.logs]
getAllLogs(s) == Returned(s, [live |-> FALSE, elems |-> s.logs])

getBotsStatus(s) ==
    Returned(s, [n \in DOMAIN s.botsStatus |-> s.bot[s.botsStatus[n]].status])

getRunningBotCount(s) ==
    Returned(s, Cardinality({n \in DOMAIN s.botsStatus :
                                s.bot[s.botsStatus[n]].status.isRunning}))

\* A caller empties an array it was returned (array.length = 0).
CallerEmpties(s, array) ==
    IF array.live THEN [s EXCEPT !.logs = <<>>] ELSE s

\* The counts a caller may pass to getRecentLogs.
LogCounts == 0..(MAX_LOGS + 1)

\* C36: no query changes the state of the manager or of a bot;
\* getRecentLogs(n) returns the first min(n, length) entries of the log, in
\* the log's order, for every n >= 0; and emptying the array getAllLogs()
\* returned leaves the manager's log as it was.  (getBotStatus,
\* getRunningBots and getBotCount are the expressions of the same names.)
C36_QueriesOnlyRead ==
    /\ \A after \in {getAllConfigs(Cur).state, getAllLogs(Cur).state,
                      getBotsStatus(Cur).state, getRunningBotCount(Cur).state}
                   \cup {getBotConfig(Cur, n).state : n \in CommandNames}
                   \cup {getRecentLogs(Cur, n).state : n \in LogCounts} :
          after = Cur
    /\ \A n \in LogCounts :
          LET recent == getRecentLogs(Cur, n).value.elems
          IN  /\ Len(recent) = IF n < Len(logs) THEN n ELSE Len(logs)
              /\ \A i \in DOMAIN recent : recent[i] = logs[i]
    /\ getAllLogs(Cur).value.elems = logs
    /\ CallerEmpties(Cur, getAllLogs(Cur).value).logs = logs
    /\ getRunningBotCount(Cur).value = Cardinality(getRunningBots)
    /\ \A n \in DOMAIN botsStatus :
          getBotsStatus(Cur).value[n] = getBotStatus(n)

\* The log is full, with two different entries, while a bot runs: the most
\* recent entry alone is what getRecentLogs(1) returns.
C36_RecentIsAProperPrefix ==
    /\ Len(logs) = MAX_LOGS
    /\ logs[1] # logs[2]
    /\ getRecentLogs(Cur, 1).value.elems = <<logs[1]>>
    /\ getRunningBots # {}

\* C37: for every bot, the isRunning of its status is its running flag.
C37_StatusMirrorsRunningFlag ==
    \A b \in BotIds :
        bot[b].alive => bot[b].status.isRunning = bot[b].isRunning

\* A running bot whose status has since been rewritten by a status update
\* (the character's hp) and by a crafting-statistics update (a craft
\* counted).
C37_RunningAfterUpdates ==
    \E b \in BotIds :
        /\ bot[b].alive
        /\ bot[b].isRunning
        /\ bot[b].status.isRunning
        /\ bot[b].status.maxHp > 0
        /\ bot[b].status.craftingStats.totalCrafts > 0

\* C38: for a name no bot is registered under, startBot(name) and
\* stopBot(name) change nothing (no map, no bot, no log entry) and emit no
\* event.
C38_UnregisteredNameIsIgnored ==
    \A characterName \in CommandNames :
        ~IsSome(BotsGet(bots, characterName))
        => /\ startBot(Cur, characterName) = Cur
           /\ stopBot(Cur, characterName) = Cur
           /\ startBot(Cur, characterName).emitted = <<>>
           /\ stopBot(Cur, characterName).emitted = <<>>

\* Two names without a bot, one that never had one and one that has a
\* configuration but lost its bot, while another bot runs and the log is
\* not empty.
C38_NamesWithoutBot ==
    /\ \E characterName \in CommandNames :
          /\ characterName \notin DOMAIN botsConfig
          /\ ~IsSome(BotsGet(bots, characterName))
    /\ \E characterName \in CommandNames :
          /\ characterName \in DOMAIN botsConfig
          /\ ~IsSome(BotsGet(bots, characterName))
    /\ \E b \in BotIds : bot[b].isRunning
    /\ logs # <<>>

====
